---- MODULE Spec2Model ----
(***************************************************************************)
(* A model of tttr-toolbox: the ring buffers of tttr_tools, the PTU record *)
(* decoders and the record stream framing of parsers/ptu.                  *)
(*                                                                         *)
(* The module holds several specifications over one set of variables, one  *)
(* per component; the variables a specification does not use stay at the   *)
(* idle values its Init gives them.                                        *)
(*   SpecRing    CircularBuffer / CCircularBuffer: push, iter, next        *)
(*   SpecDecode  parse_record of the four record formats, record by record *)
(*   SpecStream  the record streams: new and Iterator::next over a file    *)
(*   SpecDispatch  the header tags, the stream constructors' tag reads and *)
(*               the dispatch of every public engine function              *)
(*   SpecG2      the core loop of the g2 engines over record ranges        *)
(*   SpecEngines, SpecTimeTrace                                            *)
(*               the compute loops of the engines over an event stream     *)
(*   SpecOrder   the record streams over files with ill-formed records     *)
(*   SpecHeader  process_tag of the header reader on a WideString entry    *)
(*   SpecTermination  streams, ring iterations and g2 calls, run to their  *)
(*               ends under weak fairness                                  *)
(*                                                                         *)
(* A 32-bit record word is the pair <<hi, lo>> of its 16-bit halves, since *)
(* TLC evaluates integers below 2^31 only.  The u64 accumulators never     *)
(* come near 2^64 in a file of the modelled length, so they are plain      *)
(* integers; the inputs are chosen so that every value stays below 2^31.   *)
(***************************************************************************)
EXTENDS Integers, Sequences, FiniteSets, TLC

VARIABLES
    kind,       \* "scalar" (CircularBuffer) or "coloured" (CCircularBuffer)
    cb,         \* the buffer: [buffer: the Vec, head: i64, cap: Vec capacity]
    pushed,     \* ghost: every value pushed since construction, oldest first
    it,         \* the iterator: [st: "none" | "active" | "done", pos, oldest_idx]
    yielded,    \* ghost: what the live iterator returned so far: [idx, val]
    file,       \* the record body of the PTU file, a sequence of record words
    args,       \* the constructor's [start_record, stop_record], each an Option
    stream,     \* the stream struct ("fmt" names its type)
    ret,        \* what the last call of next() returned
    emitted,    \* ghost: the events next() returned so far, in order
    ended,      \* ghost: some call of next() has returned None
    last,       \* ghost: the last parse_record call: record, self before, event
    run,        \* ghost: the run of overflow records being parsed: [k, ov0]
    header,     \* the header of the PTU file: tag name -> tag value or absent
    outcome,    \* how the last call on the file ended: Ok, Err or a panic
    g2,         \* one call of the g2 engine: parameters, buffers, histogram
    eng         \* one run of another engine's compute over an event stream

ringVars == <<kind, cb, pushed, it, yielded>>
streamVars == <<file, args, stream, ret, emitted, ended>>
decodeVars == <<last, run>>
dispatchVars == <<header, outcome>>
g2Vars == <<g2>>
engVars == <<eng>>

vars == <<kind, cb, pushed, it, yielded, file, args, stream, ret, emitted, ended, last, run,
          header, outcome, g2, eng>>

(***************************************************************************)
(* Bounds of the model.                                                    *)
(***************************************************************************)
MaxCap == 3
MaxPushes == 7

\* the values pushed: time tags, and (time tag, channel) pairs
Tofs == {100, 150}
Clicks == {<<100, 1>>, <<150, 2>>}

Min(a, b) == IF a < b THEN a ELSE b

RECURSIVE Rev(_)
Rev(s) == IF s = <<>> THEN <<>> ELSE Append(Rev(Tail(s)), Head(s))

(***************************************************************************)
(* Integer casts.  usize is 64 bits wide; `x as usize` of an i64 is x      *)
(* modulo 2^64.  2^64 is beyond the integers TLC evaluates, so the         *)
(* remainder of the cast value is computed from 2^64 mod m, itself         *)
(* computed by repeated squaring modulo m (the moduli of the model, ring   *)
(* buffer lengths and the sync period, are below 2^15).                    *)
(***************************************************************************)
RECURSIVE Pow2Mod(_, _)
Pow2Mod(bits, m) ==
    IF bits = 0 THEN 1 % m
    ELSE IF bits % 2 = 0
    THEN LET h == Pow2Mod(bits \div 2, m) IN (h * h) % m
    ELSE (2 * Pow2Mod(bits - 1, m)) % m

\* ((x as usize) % m) for an i64 x and 0 < m < 2^15
AsUsizeRem(x, m) == IF x >= 0 THEN x % m ELSE (Pow2Mod(64, m) + (x % m)) % m

(***************************************************************************)
(* CircularBuffer (scalar).  Slot i of the Vec is buffer[i + 1]; cap is    *)
(* buffer.capacity(), which Vec::with_capacity(buffer_size) makes          *)
(* buffer_size for these element types.                                    *)
(***************************************************************************)
CircularBuffer_new(buffer_size) ==
    [buffer |-> <<>>, head |-> 0, cap |-> buffer_size]

CircularBuffer_len(b) == Len(b.buffer)

\* mutant: the overwrite lands one slot past head
CircularBuffer_push_pastHead(b, val) ==
    LET buf == IF CircularBuffer_len(b) < b.cap
               THEN Append(b.buffer, val)
               ELSE [b.buffer EXCEPT ![((b.head + 1) % b.cap) + 1] = val]
    IN  [b EXCEPT !.buffer = buf, !.head = (b.head + 1) % b.cap]

CircularBuffer_push(b, val) ==
    LET buf == IF CircularBuffer_len(b) < b.cap
               THEN Append(b.buffer, val)
               ELSE [b.buffer EXCEPT ![b.head + 1] = val]
    IN  [b EXCEPT !.buffer = buf, !.head = (b.head + 1) % b.cap]

CircularBuffer_iter(b) ==
    [st |-> "active", pos |-> b.head - 1,
     oldest_idx |-> b.head - 1 - CircularBuffer_len(b)]

\* IterCircularBuffer::next: the slot read, or -1 for None
IterCircularBuffer_slot(b, i) ==
    IF i.pos <= i.oldest_idx THEN -1
    ELSE AsUsizeRem((i.pos - 1) + 1, CircularBuffer_len(b))

IterCircularBuffer_next(b, i) ==
    IF i.pos <= i.oldest_idx THEN [i EXCEPT !.st = "done"]
    ELSE [i EXCEPT !.pos = i.pos - 1]

(***************************************************************************)
(* CCircularBuffer (coloured): the same code over (u64, i32) pairs.        *)
(***************************************************************************)
CCircularBuffer_new(buffer_size) ==
    [buffer |-> <<>>, head |-> 0, cap |-> buffer_size]

CCircularBuffer_len(b) == Len(b.buffer)

CCircularBuffer_push(b, val, ch) ==
    LET buf == IF CCircularBuffer_len(b) < b.cap
               THEN Append(b.buffer, <<val, ch>>)
               ELSE [b.buffer EXCEPT ![b.head + 1] = <<val, ch>>]
    IN  [b EXCEPT !.buffer = buf, !.head = (b.head + 1) % b.cap]

CCircularBuffer_iter(b) ==
    [st |-> "active", pos |-> b.head - 1,
     oldest_idx |-> b.head - 1 - CCircularBuffer_len(b)]

IterCCircularBuffer_slot(b, i) ==
    IF i.pos <= i.oldest_idx THEN -1
    ELSE AsUsizeRem((i.pos - 1) + 1, CCircularBuffer_len(b))

IterCCircularBuffer_next(b, i) ==
    IF i.pos <= i.oldest_idx THEN [i EXCEPT !.st = "done"]
    ELSE [i EXCEPT !.pos = i.pos - 1]

(***************************************************************************)
(* Record words.  Bits(r, h, l) is bits h..l of the word r = <<hi, lo>>,   *)
(* the value of (record & mask) >> l for the mask of bits h..l.            *)
(***************************************************************************)
Pow2(n) == 2 ^ n

Bits(r, h, l) ==
    IF l >= 16 THEN (r[1] \div Pow2(l - 16)) % Pow2(h - l + 1)
    ELSE IF h < 16 THEN (r[2] \div Pow2(l)) % Pow2(h - l + 1)
    ELSE (r[1] % Pow2(h - 15)) * Pow2(16 - l) + (r[2] \div Pow2(l))

\* `b as u64`, `b as i32` of a bool
BoolInt(b) == IF b THEN 1 ELSE 0

TTTRRecord(channel, tof) == [channel |-> channel, tof |-> tof]

(***************************************************************************)
(* parse_record of each format: self -> [self: self after, ev: the event]. *)
(***************************************************************************)
PHT2_T2WRAPAROUND == 210698240
HHT2_HH1_T2WRAPAROUND == 33552000
HHT2_HH2_T2WRAPAROUND == 33554432
T3WRAPAROUND == 1024

\* mutant: the marker bits are zeroed out of a marker's time tag
PHT2_parse_record_maskMarker(self, record) ==
    LET ch == Bits(record, 31, 28)
        tm == Bits(record, 27, 0)
    IN  IF ch = 15
        THEN LET markers == tm % 16
             IN  IF markers = 0
                 THEN [self |-> [self EXCEPT !.overflow_correction = @ + PHT2_T2WRAPAROUND],
                       ev |-> TTTRRecord(-1, 0)]
                 ELSE [self |-> self,
                       ev |-> TTTRRecord(-2, self.overflow_correction + tm - markers)]
        ELSE [self |-> self, ev |-> TTTRRecord(ch, self.overflow_correction + tm)]

\* mutant: every special record, marker or not, counts as an overflow
PHT2_parse_record_anySpecial(self, record) ==
    LET ch == Bits(record, 31, 28)
        tm == Bits(record, 27, 0)
    IN  IF ch = 15
        THEN LET markers == tm % 16
                 s1 == [self EXCEPT !.overflow_correction = @ + PHT2_T2WRAPAROUND]
             IN  IF markers = 0
                 THEN [self |-> s1, ev |-> TTTRRecord(-1, 0)]
                 ELSE [self |-> s1, ev |-> TTTRRecord(-2, self.overflow_correction + tm)]
        ELSE [self |-> self, ev |-> TTTRRecord(ch, self.overflow_correction + tm)]

\* mutant: the overflow correction is not added to a photon's time tag
PHT2_parse_record_noCorrection(self, record) ==
    LET ch == Bits(record, 31, 28)
        tm == Bits(record, 27, 0)
    IN  IF ch = 15
        THEN LET markers == tm % 16
             IN  IF markers = 0
                 THEN [self |-> [self EXCEPT !.overflow_correction = @ + PHT2_T2WRAPAROUND],
                       ev |-> TTTRRecord(-1, 0)]
                 ELSE [self |-> self,
                       ev |-> TTTRRecord(-2, self.overflow_correction + tm)]
        ELSE [self |-> self, ev |-> TTTRRecord(ch, tm)]

PHT2_parse_record(self, record) ==
    LET ch == Bits(record, 31, 28)
        tm == Bits(record, 27, 0)
    IN  IF ch = 15
        THEN LET markers == tm % 16
             IN  IF markers = 0
                 THEN [self |-> [self EXCEPT !.overflow_correction = @ + PHT2_T2WRAPAROUND],
                       ev |-> TTTRRecord(-1, 0)]
                 ELSE [self |-> self,
                       ev |-> TTTRRecord(-2, self.overflow_correction + tm)]
        ELSE [self |-> self, ev |-> TTTRRecord(ch, self.overflow_correction + tm)]

\* mutant: the special bit is left out of the overflow test
HHT2_HH1_parse_record_noSp(self, record) ==
    LET sp == BoolInt(Bits(record, 31, 31) = 1)
        ch == Bits(record, 30, 25)
        tm == Bits(record, 24, 0)
        oc == self.overflow_correction
                + HHT2_HH1_T2WRAPAROUND * BoolInt(ch = 63)
    IN  [self |-> [self EXCEPT !.overflow_correction = oc],
         ev |-> TTTRRecord((1 - sp) * (ch + 1) - sp * ch, oc + tm)]

HHT2_HH1_parse_record(self, record) ==
    LET sp == BoolInt(Bits(record, 31, 31) = 1)
        ch == Bits(record, 30, 25)
        tm == Bits(record, 24, 0)
        oc == self.overflow_correction
                + HHT2_HH1_T2WRAPAROUND * sp * BoolInt(ch = 63)
    IN  [self |-> [self EXCEPT !.overflow_correction = oc],
         ev |-> TTTRRecord((1 - sp) * (ch + 1) - sp * ch, oc + tm)]

\* T2WRAPAROUND * tm * ((ch == 0x3F) as u64): the product is taken as
\* T2WRAPAROUND * (tm * bool), equal in u64, to stay below 2^31 when ch # 0x3F
HHT2_HH2_parse_record(self, record) ==
    LET sp == BoolInt(Bits(record, 31, 31) = 1)
        ch == Bits(record, 30, 25)
        tm == Bits(record, 24, 0)
        oc == self.overflow_correction
                + HHT2_HH2_T2WRAPAROUND * (tm * BoolInt(ch = 63))
    IN  [self |-> [self EXCEPT !.overflow_correction = oc],
         ev |-> TTTRRecord((1 - sp) * (ch + 1) - sp * ch, oc + tm)]

\* mutant: a photon's tof leaves out the accumulated sync count
HHT3_HH2_parse_record_rawNsync(self, record) ==
    LET sp == BoolInt(Bits(record, 31, 31) = 1)
        ch == Bits(record, 30, 25)
        dtime == Bits(record, 24, 10)
        nsync == Bits(record, 9, 0)
    IN  IF sp = 1
        THEN IF ch = 63
             THEN LET ns == IF nsync = 0 THEN self.nsync + T3WRAPAROUND
                            ELSE self.nsync + T3WRAPAROUND * nsync
                  IN  [self |-> [self EXCEPT !.nsync = ns],
                       ev |-> TTTRRecord(0, ns * self.sync_period)]
             ELSE IF ch >= 1 /\ ch <= 15
                  THEN [self |-> self, ev |-> TTTRRecord(-1, self.nsync * self.sync_period)]
                  ELSE [self |-> self, ev |-> TTTRRecord(-1, 0)]
        ELSE [self |-> self,
              ev |-> TTTRRecord(ch + 1, nsync * self.sync_period + dtime * self.dtime_res)]

\* mutant: an overflow record with nsync = 0 is not taken as a single overflow
HHT3_HH2_parse_record_noSingle(self, record) ==
    LET sp == BoolInt(Bits(record, 31, 31) = 1)
        ch == Bits(record, 30, 25)
        dtime == Bits(record, 24, 10)
        nsync == Bits(record, 9, 0)
    IN  IF sp = 1
        THEN IF ch = 63
             THEN LET ns == self.nsync + T3WRAPAROUND * nsync
                  IN  [self |-> [self EXCEPT !.nsync = ns],
                       ev |-> TTTRRecord(0, ns * self.sync_period)]
             ELSE IF ch >= 1 /\ ch <= 15
                  THEN [self |-> self, ev |-> TTTRRecord(-1, self.nsync * self.sync_period)]
                  ELSE [self |-> self, ev |-> TTTRRecord(-1, 0)]
        ELSE LET truensync == self.nsync + nsync
             IN  [self |-> self,
                  ev |-> TTTRRecord(ch + 1,
                                    truensync * self.sync_period + dtime * self.dtime_res)]

HHT3_HH2_parse_record(self, record) ==
    LET sp == BoolInt(Bits(record, 31, 31) = 1)
        ch == Bits(record, 30, 25)
        dtime == Bits(record, 24, 10)
        nsync == Bits(record, 9, 0)
    IN  IF sp = 1
        THEN IF ch = 63
             THEN LET ns == IF nsync = 0 THEN self.nsync + T3WRAPAROUND
                            ELSE self.nsync + T3WRAPAROUND * nsync
                  IN  [self |-> [self EXCEPT !.nsync = ns],
                       ev |-> TTTRRecord(0, ns * self.sync_period)]
             ELSE IF ch >= 1 /\ ch <= 15
                  THEN [self |-> self, ev |-> TTTRRecord(-1, self.nsync * self.sync_period)]
                  ELSE [self |-> self, ev |-> TTTRRecord(-1, 0)]
        ELSE LET truensync == self.nsync + nsync
             IN  [self |-> self,
                  ev |-> TTTRRecord(ch + 1,
                                    truensync * self.sync_period + dtime * self.dtime_res)]

T2Formats == {"PHT2", "HHT2_HH1", "HHT2_HH2"}
Formats == T2Formats \cup {"HHT3_HH2"}

\* TTTRStream::parse_record, dispatched on the stream's type
parse_record(self, record) ==
    CASE self.fmt = "PHT2"     -> PHT2_parse_record(self, record)
      [] self.fmt = "HHT2_HH1" -> HHT2_HH1_parse_record(self, record)
      [] self.fmt = "HHT2_HH2" -> HHT2_HH2_parse_record(self, record)
      [] self.fmt = "HHT3_HH2" -> HHT3_HH2_parse_record(self, record)

\* the events of parse_record applied to `records` in order, starting from self
RECURSIVE DecodeAll(_, _)
DecodeAll(self, records) ==
    IF records = <<>> THEN <<>>
    ELSE LET pr == parse_record(self, Head(records))
         IN  <<pr.ev>> \o DecodeAll(pr.self, Tail(records))

(***************************************************************************)
(* Option values, and the stream struct.  One record shape serves the      *)
(* macro-generated T2 streams and HHT3_HH2Stream: a T2 stream leaves       *)
(* nsync, sync_period and dtime_res at 0, HHT3_HH2Stream leaves            *)
(* overflow_correction and effective_buffer_size at 0.  src_pos is the     *)
(* cursor of `source`, counted in records from DataOffset.                 *)
(***************************************************************************)
None == [some |-> FALSE]
Some(x) == [some |-> TRUE, v |-> x]

NoStream ==
    [fmt |-> "none", src_pos |-> 0, click_buffer |-> <<>>, effective_buffer_size |-> 0,
     num_records |-> 0, photons_in_buffer |-> 0, click_count |-> 0,
     overflow_correction |-> 0, nsync |-> 0, sync_period |-> 0, dtime_res |-> 0]

NoCall == [fmt |-> "none"]
NoRun == [k |-> 0, ov0 |-> 0]

IdleRing ==
    /\ kind = "none"
    /\ cb = [buffer |-> <<>>, head |-> 0, cap |-> 0]
    /\ pushed = <<>>
    /\ it = [st |-> "none", pos |-> 0, oldest_idx |-> 0]
    /\ yielded = <<>>

IdleStream ==
    /\ file = <<>>
    /\ args = [start_record |-> None, stop_record |-> None]
    /\ stream = NoStream
    /\ ret = None
    /\ emitted = <<>>
    /\ ended = FALSE

IdleDecode ==
    /\ last = NoCall
    /\ run = NoRun

NoHeader == <<>>
NoOutcome == [call |-> "none"]

IdleDispatch ==
    /\ header = NoHeader
    /\ outcome = NoOutcome

NoG2 == [st |-> "none"]

IdleG2 == g2 = NoG2

NoEng == [st |-> "none"]

IdleEng == eng = NoEng

(***************************************************************************)
(* The record streams.  BUFFER_SIZE is 1024 * 16 in the source; the model  *)
(* runs with a read buffer of a few records, so that files of a few        *)
(* records span several refills.                                           *)
(***************************************************************************)
BUFFER_SIZE == 2

\* num_records is `(last_record - record_offset) as usize`.  The field holds
\* the i64 difference d; a negative d stands for the usize 2^64 + d, which
\* exceeds every click_count and every BUFFER_SIZE.
UsizeGe(x, d) == IF d < 0 THEN FALSE ELSE x >= d

\* read_u32_into(&mut buf[..n]) at cursor pos of the body f: read_exact fills
\* the n words or fails at the end of the file, the words that were left
\* copied and the cursor at the end.
read_u32_into(f, pos, buf, n) ==
    IF pos + n <= Len(f)
    THEN [ok |-> TRUE, pos |-> pos + n,
          buf |-> [i \in 1..Len(buf) |-> IF i <= n THEN f[pos + i] ELSE buf[i]]]
    ELSE LET avail == IF pos < Len(f) THEN Len(f) - pos ELSE 0
         IN  [ok |-> FALSE, pos |-> IF pos < Len(f) THEN Len(f) ELSE pos,
              buf |-> [i \in 1..Len(buf) |-> IF i <= avail THEN f[pos + i] ELSE buf[i]]]

\* the part of `new` the two constructors share: the record range
record_offset(start_record) == IF start_record.some THEN start_record.v ELSE 0
last_record(stop_record, number_of_records) ==
    IF stop_record.some THEN stop_record.v ELSE number_of_records

\* make_ptu_stream: the generated `new` (number_of_records is the header's
\* TTResult_NumberOfRecords; the seek puts the cursor at record_offset)
T2Stream_new(fmt, number_of_records, start_record, stop_record) ==
    [fmt |-> fmt,
     src_pos |-> record_offset(start_record),
     click_buffer |-> [i \in 1..BUFFER_SIZE |-> <<0, 0>>],
     effective_buffer_size |-> 0,
     num_records |-> last_record(stop_record, number_of_records)
                       - record_offset(start_record),
     photons_in_buffer |-> 0,
     click_count |-> 0,
     overflow_correction |-> 0,
     nsync |-> 0, sync_period |-> 0, dtime_res |-> 0]

T2Stream_clicks_requested(self) ==
    IF self.num_records >= 0 /\ self.num_records - self.click_count < BUFFER_SIZE
    THEN self.num_records - self.click_count
    ELSE BUFFER_SIZE

\* mutant: the slot is counted from the full buffer, not from the part read
T2Stream_current_photon_fullBuffer(self) == BUFFER_SIZE - self.photons_in_buffer

T2Stream_current_photon(self) == self.effective_buffer_size - self.photons_in_buffer

\* mutant: a failed read is counted as a record
T2Stream_next_countsFailedRead(self, f) ==
    IF UsizeGe(self.click_count, self.num_records)
    THEN [self |-> self, ret |-> None]
    ELSE LET refill == self.photons_in_buffer = 0
             clicks_requested == T2Stream_clicks_requested(self)
             rd == read_u32_into(f, self.src_pos, self.click_buffer, clicks_requested)
         IN  IF refill /\ ~rd.ok
             THEN [self |-> [self EXCEPT !.src_pos = rd.pos, !.click_buffer = rd.buf,
                                         !.click_count = @ + 1],
                   ret |-> None]
             ELSE LET s1 == IF refill
                            THEN [self EXCEPT !.src_pos = rd.pos,
                                              !.click_buffer = rd.buf,
                                              !.effective_buffer_size = clicks_requested,
                                              !.photons_in_buffer = clicks_requested]
                            ELSE self
                      current_photon == T2Stream_current_photon(s1)
                      s2 == [s1 EXCEPT !.photons_in_buffer = @ - 1, !.click_count = @ + 1]
                      pr == parse_record(s2, s2.click_buffer[current_photon + 1])
                  IN  [self |-> pr.self, ret |-> Some(pr.ev)]

\* mutant: an emitted record is not counted
T2Stream_next_noCount(self, f) ==
    IF UsizeGe(self.click_count, self.num_records)
    THEN [self |-> self, ret |-> None]
    ELSE LET refill == self.photons_in_buffer = 0
             clicks_requested == T2Stream_clicks_requested(self)
             rd == read_u32_into(f, self.src_pos, self.click_buffer, clicks_requested)
         IN  IF refill /\ ~rd.ok
             THEN [self |-> [self EXCEPT !.src_pos = rd.pos, !.click_buffer = rd.buf],
                   ret |-> None]
             ELSE LET s1 == IF refill
                            THEN [self EXCEPT !.src_pos = rd.pos,
                                              !.click_buffer = rd.buf,
                                              !.effective_buffer_size = clicks_requested,
                                              !.photons_in_buffer = clicks_requested]
                            ELSE self
                      current_photon == T2Stream_current_photon(s1)
                      s2 == [s1 EXCEPT !.photons_in_buffer = @ - 1]
                      pr == parse_record(s2, s2.click_buffer[current_photon + 1])
                  IN  [self |-> pr.self, ret |-> Some(pr.ev)]

\* make_ptu_stream: the generated Iterator::next
T2Stream_next(self, f) ==
    IF UsizeGe(self.click_count, self.num_records)
    THEN [self |-> self, ret |-> None]
    ELSE LET refill == self.photons_in_buffer = 0
             clicks_requested == T2Stream_clicks_requested(self)
             rd == read_u32_into(f, self.src_pos, self.click_buffer, clicks_requested)
         IN  IF refill /\ ~rd.ok
             THEN [self |-> [self EXCEPT !.src_pos = rd.pos, !.click_buffer = rd.buf],
                   ret |-> None]
             ELSE LET s1 == IF refill
                            THEN [self EXCEPT !.src_pos = rd.pos,
                                              !.click_buffer = rd.buf,
                                              !.effective_buffer_size = clicks_requested,
                                              !.photons_in_buffer = clicks_requested]
                            ELSE self
                      current_photon == T2Stream_current_photon(s1)
                      s2 == [s1 EXCEPT !.photons_in_buffer = @ - 1, !.click_count = @ + 1]
                      pr == parse_record(s2, s2.click_buffer[current_photon + 1])
                  IN  [self |-> pr.self, ret |-> Some(pr.ev)]

HHT3_HH2Stream_new(number_of_records, start_record, stop_record, sync_period, dtime_res) ==
    [fmt |-> "HHT3_HH2",
     src_pos |-> record_offset(start_record),
     click_buffer |-> [i \in 1..BUFFER_SIZE |-> <<0, 0>>],
     effective_buffer_size |-> 0,
     num_records |-> last_record(stop_record, number_of_records)
                       - record_offset(start_record),
     photons_in_buffer |-> 0,
     click_count |-> 0,
     overflow_correction |-> 0,
     nsync |-> 0, sync_period |-> sync_period, dtime_res |-> dtime_res]

HHT3_HH2Stream_current_photon(self) == BUFFER_SIZE - self.photons_in_buffer

\* impl Iterator for HHT3_HH2Stream
HHT3_HH2Stream_next(self, f) ==
    LET refill == self.photons_in_buffer = 0
        rd == read_u32_into(f, self.src_pos, self.click_buffer, BUFFER_SIZE)
        s0 == [self EXCEPT !.src_pos = rd.pos, !.click_buffer = rd.buf]
    IN  IF refill /\ ~rd.ok THEN [self |-> s0, ret |-> None]
        ELSE IF refill /\ UsizeGe(self.click_count, self.num_records)
        THEN [self |-> s0, ret |-> None]
        ELSE LET s1 == IF refill THEN [s0 EXCEPT !.photons_in_buffer = BUFFER_SIZE]
                       ELSE self
                 current_photon == HHT3_HH2Stream_current_photon(s1)
                 s2 == [s1 EXCEPT !.photons_in_buffer = @ - 1, !.click_count = @ + 1]
                 pr == parse_record(s2, s2.click_buffer[current_photon + 1])
             IN  [self |-> pr.self, ret |-> Some(pr.ev)]

(***************************************************************************)
(* SpecRing: a buffer of either flavour is constructed with a capacity in  *)
(* 1..MaxCap, then pushed to and iterated.  An iterator borrows the        *)
(* buffer, so no push happens while one is live; a push drops it.          *)
(***************************************************************************)
NoIter == [st |-> "none", pos |-> 0, oldest_idx |-> 0]

InitRing ==
    /\ kind \in {"scalar", "coloured"}
    /\ \E c \in 1..MaxCap :
          cb = IF kind = "scalar" THEN CircularBuffer_new(c) ELSE CCircularBuffer_new(c)
    /\ pushed = <<>>
    /\ it = NoIter
    /\ yielded = <<>>
    /\ IdleStream
    /\ IdleDecode
    /\ IdleDispatch
    /\ IdleG2
    /\ IdleEng

Push ==
    /\ kind = "scalar"
    /\ Len(pushed) < MaxPushes
    /\ \E val \in Tofs :
          /\ cb' = CircularBuffer_push(cb, val)
          /\ pushed' = Append(pushed, val)
    /\ it' = NoIter
    /\ yielded' = <<>>
    /\ UNCHANGED <<kind, streamVars, decodeVars, dispatchVars, g2Vars, engVars>>

CPush ==
    /\ kind = "coloured"
    /\ Len(pushed) < MaxPushes
    /\ \E c \in Clicks :
          /\ cb' = CCircularBuffer_push(cb, c[1], c[2])
          /\ pushed' = Append(pushed, c)
    /\ it' = NoIter
    /\ yielded' = <<>>
    /\ UNCHANGED <<kind, streamVars, decodeVars, dispatchVars, g2Vars, engVars>>

Iter ==
    /\ it.st = "none"
    /\ it' = IF kind = "scalar" THEN CircularBuffer_iter(cb) ELSE CCircularBuffer_iter(cb)
    /\ yielded' = <<>>
    /\ UNCHANGED <<kind, cb, pushed, streamVars, decodeVars, dispatchVars, g2Vars, engVars>>

IterNext ==
    /\ it.st = "active"
    /\ LET slot == IF kind = "scalar" THEN IterCircularBuffer_slot(cb, it)
                   ELSE IterCCircularBuffer_slot(cb, it)
       IN  /\ it' = IF kind = "scalar" THEN IterCircularBuffer_next(cb, it)
                    ELSE IterCCircularBuffer_next(cb, it)
           /\ yielded' = IF slot = -1 THEN yielded
                         ELSE Append(yielded, [idx |-> slot, val |-> cb.buffer[slot + 1]])
    /\ UNCHANGED <<kind, cb, pushed, streamVars, decodeVars, dispatchVars, g2Vars, engVars>>

(***************************************************************************)
(* Ring buffer claims.                                                     *)
(***************************************************************************)
\* the last min(N, C) pushed values, newest first
NewestFirst == Rev(SubSeq(pushed, Len(pushed) - Min(Len(pushed), cb.cap) + 1, Len(pushed)))

\* the 0-based number of the most recent push that went to slot i
LastPushTo(i) ==
    CHOOSE k \in 0..(Len(pushed) - 1) :
        /\ k % cb.cap = i
        /\ \A j \in 0..(Len(pushed) - 1) : j % cb.cap = i => j <= k

(* C1: after N pushes into a fresh buffer of capacity C, iter() yields     *)
(* exactly min(N, C) elements, the last min(N, C) pushed values newest     *)
(* first, and no slot is yielded twice.                                    *)
C1_IterYieldsNewestFirst ==
    it.st \in {"active", "done"} =>
        /\ Len(yielded) <= Len(NewestFirst)
        /\ \A i \in 1..Len(yielded) : yielded[i].val = NewestFirst[i]
        /\ \A i, j \in 1..Len(yielded) : i # j => yielded[i].idx # yielded[j].idx
        /\ it.st = "done" => Len(yielded) = Min(Len(pushed), cb.cap)

(* C4: after N pushes into a capacity-C buffer len = min(N, C), head =     *)
(* N mod C, slot i holds the value of the most recent push whose number k  *)
(* has k mod C = i, and when the buffer is full head is the slot of the    *)
(* oldest retained element.                                                *)
C4_PushLayout ==
    LET N == Len(pushed)
        C == cb.cap
    IN  /\ Len(cb.buffer) = Min(N, C)
        /\ Len(cb.buffer) <= C
        /\ cb.head = N % C
        /\ \A i \in 0..(Len(cb.buffer) - 1) : cb.buffer[i + 1] = pushed[LastPushTo(i) + 1]
        /\ N >= C => cb.buffer[cb.head + 1] = pushed[N - C + 1]

\* a buffer of capacity 3 that has wrapped around twice
C4_Witness == cb.cap = 3 /\ Len(pushed) = 7 /\ pushed[7] # pushed[4]

NextRing == Push \/ CPush \/ Iter \/ IterNext

SpecRing == InitRing /\ [][NextRing]_vars

(***************************************************************************)
(* SpecDecode: the decoding step of next() (click_count += 1, then         *)
(* parse_record) is applied, record after record, to a stream struct       *)
(* fresh from the constructor (accumulators at 0).  The records are        *)
(* drawn from sets that hold every category of each format (photon,        *)
(* overflow, marker, other special) with field values at both ends of      *)
(* their ranges.  The multiplier field of an HHT2_HH2 or HHT3_HH2 record   *)
(* with ch = 0x3F is kept at 0..2 to keep the accumulators below 2^31.     *)
(***************************************************************************)
MaxParse == 4

\* record words from their fields
PHWord(ch, tm) == <<ch * 4096 + tm \div 65536, tm % 65536>>
HHWord(sp, ch, tm) == <<sp * 32768 + ch * 512 + tm \div 65536, tm % 65536>>
T3Word(sp, ch, dtime, nsync) == HHWord(sp, ch, dtime * 1024 + nsync)

PHT2Records ==
    {PHWord(ch, tm) : ch \in {0, 1, 14, 15},
                      tm \in {0, 1, 2, 15, 16, 32, 65536, 268435440, 268435455}}

HHT2_HH1Records ==
    {HHWord(sp, ch, tm) : sp \in {0, 1}, ch \in {0, 1, 15, 62, 63},
                          tm \in {0, 1, 2, 65536, 33554431}}

HHT2_HH2Records ==
    {HHWord(sp, ch, tm) : sp \in {0, 1}, ch \in {0, 1, 15, 62},
                          tm \in {0, 1, 2, 65536, 33554431}}
    \cup {HHWord(sp, 63, tm) : sp \in {0, 1}, tm \in {0, 1, 2}}

HHT3_HH2Records ==
    {T3Word(sp, ch, dtime, nsync) : sp \in {0, 1}, ch \in {0, 1, 15, 16, 62},
                                    dtime \in {0, 100, 32767}, nsync \in {0, 5, 1023}}
    \cup {T3Word(0, 63, dtime, nsync) : dtime \in {0, 100, 32767}, nsync \in {0, 5, 1023}}
    \cup {T3Word(1, 63, dtime, nsync) : dtime \in {0, 100, 32767}, nsync \in {0, 1, 2}}

RecordsOf(fmt) ==
    CASE fmt = "PHT2"     -> PHT2Records
      [] fmt = "HHT2_HH1" -> HHT2_HH1Records
      [] fmt = "HHT2_HH2" -> HHT2_HH2Records
      [] fmt = "HHT3_HH2" -> HHT3_HH2Records

SyncPeriods == {12500, 25000}
DtimeResolutions == {4, 16}

\* the struct the constructors build, before any record is read
FreshStream(fmt, sync_period, dtime_res) ==
    [NoStream EXCEPT !.fmt = fmt, !.sync_period = sync_period, !.dtime_res = dtime_res]

InitDecode ==
    /\ IdleRing
    /\ file = <<>>
    /\ args = [start_record |-> None, stop_record |-> None]
    /\ \/ \E fmt \in T2Formats : stream = FreshStream(fmt, 0, 0)
       \/ \E sp \in SyncPeriods, dr \in DtimeResolutions :
             stream = FreshStream("HHT3_HH2", sp, dr)
    /\ ret = None
    /\ emitted = <<>>
    /\ ended = FALSE
    /\ IdleDecode
    /\ IdleDispatch
    /\ IdleG2
    /\ IdleEng

\* is `record` an overflow record of the format?
IsOverflow(fmt, record) ==
    CASE fmt = "PHT2" -> Bits(record, 31, 28) = 15 /\ Bits(record, 3, 0) = 0
      [] OTHER        -> Bits(record, 31, 31) = 1 /\ Bits(record, 30, 25) = 63

Parse(fmt) ==
    /\ stream.fmt = fmt
    /\ stream.click_count < MaxParse
    /\ \E record \in RecordsOf(fmt) :
          LET self == [stream EXCEPT !.click_count = @ + 1]
              pr == parse_record(self, record)
          IN  /\ stream' = pr.self
              /\ last' = [fmt |-> fmt, record |-> record, before |-> self,
                          after |-> pr.self, ev |-> pr.ev]
              /\ run' = IF IsOverflow(fmt, record)
                        THEN [run EXCEPT !.k = @ + 1]
                        ELSE [k |-> 0, ov0 |-> pr.self.overflow_correction]
    /\ UNCHANGED <<ringVars, file, args, ret, emitted, ended, dispatchVars, g2Vars, engVars>>

ParsePHT2 == Parse("PHT2")
ParseHHT2_HH1 == Parse("HHT2_HH1")
ParseHHT2_HH2 == Parse("HHT2_HH2")
ParseHHT3_HH2 == Parse("HHT3_HH2")

(***************************************************************************)
(* Decoder claims.  `last` holds the last parse_record call.               *)
(***************************************************************************)
(* C5: a PHT2 record with ch = bits 31..28, tm = bits 27..0 and overflow   *)
(* accumulator ov decodes to (ch, ov + tm) if ch # 0xF, to (-2, ov + tm)   *)
(* if ch = 0xF and tm & 0xF # 0, and to (-1, 0) if ch = 0xF and            *)
(* tm & 0xF = 0; records 0x00000001, 0xF0000000, 0x00000002 decode to      *)
(* (0, 1), (-1, 0), (0, 210698242).                                        *)
C5_PHT2Decode ==
    /\ last.fmt = "PHT2" =>
          LET ch == Bits(last.record, 31, 28)
              tm == Bits(last.record, 27, 0)
              ov == last.before.overflow_correction
          IN  /\ ch # 15 => last.ev = [channel |-> ch, tof |-> ov + tm]
              /\ (ch = 15 /\ tm % 16 # 0) => last.ev = [channel |-> -2, tof |-> ov + tm]
              /\ (ch = 15 /\ tm % 16 = 0) => last.ev = [channel |-> -1, tof |-> 0]
    /\ DecodeAll(FreshStream("PHT2", 0, 0), << <<0, 1>>, <<61440, 0>>, <<0, 2>> >>)
          = << [channel |-> 0, tof |-> 1], [channel |-> -1, tof |-> 0],
               [channel |-> 0, tof |-> 210698242] >>

\* the third record of 0x00000001, 0xF0000000, 0x00000002 has been decoded
C5_Witness ==
    /\ last.fmt = "PHT2" /\ stream.click_count = 3
    /\ last.record = <<0, 2>>
    /\ last.before.overflow_correction = 210698240
    /\ last.ev = [channel |-> 0, tof |-> 210698242]

(* C6: in a PHT2 stream a run of K consecutive overflow records advances   *)
(* the overflow accumulator by exactly K * 210698240, and a photon or      *)
(* marker record leaves it unchanged.                                      *)
C6_PHT2OverflowRun ==
    (stream.fmt = "PHT2" /\ last.fmt = "PHT2") =>
        /\ stream.overflow_correction = run.ov0 + run.k * 210698240
        /\ ~IsOverflow("PHT2", last.record) =>
              last.after.overflow_correction = last.before.overflow_correction

\* a run of two overflow records that follows an earlier overflow and a photon
C6_Witness == stream.fmt = "PHT2" /\ run.k = 2 /\ run.ov0 = 210698240

(* C7: an HHT2_HH1 record (sp = bit 31, ch = bits 30..25, tm = bits 24..0) *)
(* adds 33552000 to the overflow accumulator exactly when sp = 1 and       *)
(* ch = 0x3F; the event has channel ch + 1 if sp = 0 and -ch if sp = 1,    *)
(* and tof = accumulator after the update + tm; 0x80000000 on a fresh      *)
(* stream gives (0, 0) and leaves the accumulator at 0.                    *)
C7_HHT2_HH1Decode ==
    last.fmt = "HHT2_HH1" =>
        LET sp == Bits(last.record, 31, 31)
            ch == Bits(last.record, 30, 25)
            tm == Bits(last.record, 24, 0)
            ov0 == last.before.overflow_correction
            ov1 == last.after.overflow_correction
        IN  /\ ov1 = IF sp = 1 /\ ch = 63 THEN ov0 + 33552000 ELSE ov0
            /\ last.ev.channel = IF sp = 0 THEN ch + 1 ELSE -ch
            /\ last.ev.tof = ov1 + tm
            /\ (last.record = <<32768, 0>> /\ ov0 = 0) =>
                  /\ last.ev = [channel |-> 0, tof |-> 0]
                  /\ ov1 = 0

\* an overflow record (sp = 1, ch = 0x3F) decoded after an earlier overflow
C7_Witness ==
    /\ last.fmt = "HHT2_HH1"
    /\ Bits(last.record, 31, 25) = 127
    /\ last.before.overflow_correction = 33552000
    /\ last.ev.tof = 67104000 + Bits(last.record, 24, 0)

(* C8: an HHT2_HH2 record advances the overflow accumulator by             *)
(* 33554432 * tm when sp = 1 and ch = 0x3F and leaves it unchanged         *)
(* otherwise, in particular for every photon record (sp = 0).              *)
C8_HHT2_HH2Overflow ==
    last.fmt = "HHT2_HH2" =>
        LET sp == Bits(last.record, 31, 31)
            ch == Bits(last.record, 30, 25)
            tm == Bits(last.record, 24, 0)
            ov0 == last.before.overflow_correction
            ov1 == last.after.overflow_correction
        IN  ov1 = IF sp = 1 /\ ch = 63 THEN ov0 + 33554432 * tm ELSE ov0

(* C9: an HHT3_HH2 photon record (sp = 0; ch = bits 30..25, dtime = bits   *)
(* 24..10, nsync = bits 9..0) gives channel ch + 1 and tof =               *)
(* (sync accumulator + nsync) * sync_period + dtime * dtime_res and leaves *)
(* the accumulator unchanged; ch 0, dtime 100, nsync 5, accumulator 10,    *)
(* sync_period 12500, dtime_res 4 give (1, 187900).                        *)
C9_HHT3_HH2Photon ==
    /\ (last.fmt = "HHT3_HH2" /\ Bits(last.record, 31, 31) = 0) =>
          LET ch == Bits(last.record, 30, 25)
              dtime == Bits(last.record, 24, 10)
              nsync == Bits(last.record, 9, 0)
              acc == last.before.nsync
          IN  /\ last.ev.channel = ch + 1
              /\ last.ev.tof = (acc + nsync) * last.before.sync_period
                                 + dtime * last.before.dtime_res
              /\ last.after.nsync = acc
    /\ HHT3_HH2_parse_record([FreshStream("HHT3_HH2", 12500, 4) EXCEPT !.nsync = 10],
                             <<1, 36869>>)
          = [self |-> [FreshStream("HHT3_HH2", 12500, 4) EXCEPT !.nsync = 10],
             ev |-> [channel |-> 1, tof |-> 187900]]

\* the photon ch 0, dtime 100, nsync 5 decoded after an overflow record
C9_Witness ==
    /\ last.fmt = "HHT3_HH2"
    /\ last.record = <<1, 36869>>
    /\ last.before.nsync = 1024 /\ last.before.sync_period = 12500
    /\ last.before.dtime_res = 4
    /\ last.ev = [channel |-> 1, tof |-> 1029 * 12500 + 400]

(* C10: an HHT3_HH2 special record (sp = 1) with ch = 0x3F adds 1024 to    *)
(* the sync accumulator if nsync = 0 and 1024 * nsync otherwise and gives  *)
(* (0, accumulator after * sync_period); with 1 <= ch <= 15 it leaves the  *)
(* accumulator and gives (-1, accumulator * sync_period); with any other   *)
(* ch it leaves the accumulator and gives (-1, 0).                         *)
C10_HHT3_HH2Special ==
    (last.fmt = "HHT3_HH2" /\ Bits(last.record, 31, 31) = 1) =>
        LET ch == Bits(last.record, 30, 25)
            nsync == Bits(last.record, 9, 0)
            acc0 == last.before.nsync
            acc1 == last.after.nsync
            period == last.before.sync_period
        IN  /\ ch = 63 =>
                  /\ acc1 = acc0 + (IF nsync = 0 THEN 1024 ELSE 1024 * nsync)
                  /\ last.ev = [channel |-> 0, tof |-> acc1 * period]
            /\ (ch >= 1 /\ ch <= 15) =>
                  /\ acc1 = acc0
                  /\ last.ev = [channel |-> -1, tof |-> acc0 * period]
            /\ (ch # 63 /\ ~(ch >= 1 /\ ch <= 15)) =>
                  /\ acc1 = acc0
                  /\ last.ev = [channel |-> -1, tof |-> 0]

\* a marker record decoded after a double overflow (nsync = 2) and a single one
C10_Witness ==
    /\ last.fmt = "HHT3_HH2"
    /\ Bits(last.record, 31, 31) = 1 /\ Bits(last.record, 30, 25) = 15
    /\ last.before.nsync = 3072
    /\ last.ev = [channel |-> -1, tof |-> 3072 * last.before.sync_period]

NextDecode == ParsePHT2 \/ ParseHHT2_HH1 \/ ParseHHT2_HH2 \/ ParseHHT3_HH2

SpecDecode == InitDecode /\ [][NextDecode]_vars

(***************************************************************************)
(* SpecStream: a file body of up to MaxFileLen records of one format, a    *)
(* stream constructed on it with start_record and stop_record each absent  *)
(* or in 0..MaxFileLen, and next() called again and again.  The header's   *)
(* record count is the number of records the body holds; a stop_record     *)
(* beyond it makes the body shorter than the range (a truncated file).     *)
(***************************************************************************)
MaxFileLen == 4

StreamRecords(fmt) ==
    CASE fmt = "PHT2"     -> {<<0, 1>>, <<61440, 0>>, <<0, 2>>}
      [] fmt = "HHT2_HH1" -> {HHWord(0, 0, 1), HHWord(1, 63, 0), HHWord(0, 1, 2)}
      [] fmt = "HHT2_HH2" -> {HHWord(0, 0, 1), HHWord(1, 63, 1), HHWord(0, 1, 2)}
      [] fmt = "HHT3_HH2" -> {T3Word(0, 0, 100, 5), T3Word(1, 63, 0, 1), T3Word(0, 1, 0, 7)}

RECURSIVE SeqsUpTo(_, _)
SeqsUpTo(S, n) ==
    IF n = 0 THEN {<<>>}
    ELSE LET shorter == SeqsUpTo(S, n - 1)
         IN  shorter \cup {Append(q, x) : q \in shorter, x \in S}

Options == {None} \cup {Some(n) : n \in 0..MaxFileLen}

InitStream ==
    /\ IdleRing
    /\ IdleDecode
    /\ IdleDispatch
    /\ IdleG2
    /\ IdleEng
    /\ \E fmt \in Formats :
          /\ file \in SeqsUpTo(StreamRecords(fmt), MaxFileLen)
          /\ args \in [start_record : Options, stop_record : Options]
          /\ stream = IF fmt \in T2Formats
                      THEN T2Stream_new(fmt, Len(file), args.start_record, args.stop_record)
                      ELSE HHT3_HH2Stream_new(Len(file), args.start_record,
                                              args.stop_record, 12500, 4)
    /\ ret = None
    /\ emitted = <<>>
    /\ ended = FALSE

Returned(r) ==
    /\ stream' = r.self
    /\ ret' = r.ret
    /\ emitted' = IF r.ret.some THEN Append(emitted, r.ret.v) ELSE emitted
    /\ ended' = (ended \/ ~r.ret.some)
    /\ UNCHANGED <<ringVars, decodeVars, file, args, dispatchVars, g2Vars, engVars>>

T2Next ==
    /\ stream.fmt \in T2Formats
    /\ Returned(T2Stream_next(stream, file))

HHT3_HH2Next ==
    /\ stream.fmt = "HHT3_HH2"
    /\ Returned(HHT3_HH2Stream_next(stream, file))

(***************************************************************************)
(* Stream claims.  The record range is [RangeStart, RangeStop).            *)
(***************************************************************************)
RangeStart == record_offset(args.start_record)
RangeStop == last_record(args.stop_record, Len(file))

\* the decoding of the records of the range, in file order, by a fresh decoder
RangeEvents ==
    DecodeAll(FreshStream(stream.fmt, stream.sync_period, stream.dtime_res),
              SubSeq(file, RangeStart + 1, RangeStop))

(* C2: a T2 stream (PHT2, HHT2_HH1, HHT2_HH2) constructed with range       *)
(* [a, b) on a file that holds at least b records returns exactly b - a    *)
(* events, the i-th the decoding of file record a + i, also across buffer  *)
(* refills, and every later call returns None.                             *)
C2_T2StreamYieldsRange ==
    (stream.fmt \in T2Formats /\ RangeStart <= RangeStop /\ RangeStop <= Len(file)) =>
        /\ Len(emitted) <= RangeStop - RangeStart
        /\ \A i \in 1..Len(emitted) : emitted[i] = RangeEvents[i]
        /\ (~ended /\ emitted # <<>>) => ret = Some(emitted[Len(emitted)])
        /\ ended => (Len(emitted) = RangeStop - RangeStart /\ ret = None)

\* a PHT2 range [1, 4) read in two refills, an overflow record in it, to its end
C2_Witness ==
    /\ stream.fmt = "PHT2" /\ RangeStart = 1 /\ RangeStop = 4
    /\ ended /\ Len(emitted) = 3
    /\ emitted[2].channel = -1 /\ emitted[3].tof = 210698242

(* C3: an HHT3_HH2 stream constructed with range [a, b) has click_count    *)
(* <= num_records = b - a in every state, so it never emits more than     *)
(* b - a events, and on a file that holds at least b records it emits      *)
(* exactly b - a events before it returns None.                            *)
C3_HHT3StreamBounded ==
    (stream.fmt = "HHT3_HH2" /\ RangeStart <= RangeStop) =>
        /\ stream.num_records = RangeStop - RangeStart
        /\ stream.click_count <= stream.num_records
        /\ Len(emitted) <= RangeStop - RangeStart
        /\ (RangeStop <= Len(file) /\ ended) => Len(emitted) = RangeStop - RangeStart

\* a channel number of a detector input: non-negative, and in T3 mode not 0,
\* which HHT3_HH2 parse_record gives to sync overflow records
IsPhotonChannel(fmt, channel) ==
    IF fmt = "HHT3_HH2" THEN channel >= 1 ELSE channel >= 0

(* C11: within one record stream of any supported format and for every     *)
(* input record sequence, the tof values emitted on real photon channels   *)
(* are non-decreasing in emission order.                                   *)
C11_TofNonDecreasing ==
    \A i, j \in 1..Len(emitted) :
        (/\ i < j
         /\ IsPhotonChannel(stream.fmt, emitted[i].channel)
         /\ IsPhotonChannel(stream.fmt, emitted[j].channel))
            => emitted[i].tof <= emitted[j].tof

\* the next call refills and its bulk read fails: a T2 stream has records left
\* to deliver, either stream has used up its buffer, and the file holds fewer
\* records past the cursor than the read asks for
ReadFails ==
    /\ stream.fmt \in Formats
    /\ stream.photons_in_buffer = 0
    /\ IF stream.fmt \in T2Formats
       THEN /\ ~UsizeGe(stream.click_count, stream.num_records)
            /\ ~read_u32_into(file, stream.src_pos, stream.click_buffer,
                              T2Stream_clicks_requested(stream)).ok
       ELSE ~read_u32_into(file, stream.src_pos, stream.click_buffer, BUFFER_SIZE).ok

(* C12: for every record stream (T2 and T3), a next() call whose bulk read *)
(* of the next chunk fails or short-reads returns None, emits no event of  *)
(* the incomplete chunk, leaves click_count and the overflow / sync        *)
(* accumulator unchanged, and leaves the stream in a state where the next  *)
(* call's read fails again, so that every later next() returns None too.   *)
C12_ShortReadEndsStream ==
    [][ReadFails =>
          /\ ret' = None
          /\ emitted' = emitted
          /\ ended'
          /\ stream'.click_count = stream.click_count
          /\ stream'.overflow_correction = stream.overflow_correction
          /\ stream'.nsync = stream.nsync
          /\ stream'.photons_in_buffer = 0
          /\ ReadFails']_vars

\* a T2 range [0, 4) on a file of 3 records: the second chunk short-reads after
\* two events, its one record sits in the buffer and is not emitted
C12_Witness ==
    /\ stream.fmt \in T2Formats
    /\ Len(file) = 3 /\ stream.num_records = 4
    /\ ended /\ ret = None /\ Len(emitted) = 2
    /\ stream.click_count = 2
    /\ stream.src_pos = 3 /\ stream.click_buffer[1] = file[3]
    /\ ReadFails

(* C36: a record stream constructed with an empty range, stop_record <=     *)
(* start_record (stop_record strictly below start_record included), yields *)
(* no event: its first next() returns None.                                *)
C36_EmptyRangeYieldsNothing ==
    (stream.fmt \in Formats /\ RangeStop <= RangeStart) => emitted = <<>>

NextStream == T2Next \/ HHT3_HH2Next

SpecStream == InitStream /\ [][NextStream]_vars

(***************************************************************************)
(* The header and the dispatch of the engines.  A Header is a HashMap from *)
(* tag name to PTUTag; the model keeps the five tags the library reads,    *)
(* each absent (None) or present with a kind and a value.  A Float8 tag    *)
(* of the model holds its value in picoseconds (the f64 seconds times      *)
(* 1e12, which is what HHT3_HH2Stream::new stores).  The file at           *)
(* ptu_file.path is the one PTUFile::new read the header from: File::open  *)
(* and seek succeed.                                                       *)
(***************************************************************************)
TAG_TTTR_REC_TYPE == "TTResultFormat_TTTRRecType"
TAG_NUM_RECORDS == "TTResult_NumberOfRecords"
TAG_GLOB_RES == "MeasDesc_GlobalResolution"
TAG_DATA_OFFSET == "DataOffset"
TAG_RES == "MeasDesc_Resolution"

Tags == {TAG_TTTR_REC_TYPE, TAG_NUM_RECORDS, TAG_DATA_OFFSET, TAG_GLOB_RES, TAG_RES}

PTUTag(ty, v) == [ty |-> ty, v |-> v]

\* enum RecType: the codes of TTResultFormat_TTTRRecType
RecType ==
    [PicoHarpT3     |-> 66307,       \* 0x00010303
     PicoHarpT2     |-> 66051,       \* 0x00010203
     HydraHarpT3    |-> 66308,       \* 0x00010304
     HydraHarpT2    |-> 66052,       \* 0x00010204
     HydraHarp2T3   |-> 16843524,    \* 0x01010304
     HydraHarp2T2   |-> 16843268,    \* 0x01010204
     TimeHarp260NT3 |-> 66309,       \* 0x00010305
     TimeHarp260NT2 |-> 66053,       \* 0x00010205
     TimeHarp260PT3 |-> 66310,       \* 0x00010306
     TimeHarp260PT2 |-> 66054]       \* 0x00010206

RecTypeNames == DOMAIN RecType

\* Result values
Ok(x) == [ok |-> TRUE, v |-> x]
Err(e) == [ok |-> FALSE, err |-> e]

\* read_ptu_tag!(header[key] as ty)
read_ptu_tag(hdr, key, ty) ==
    IF ~hdr[key].some THEN Err("InvalidHeader")
    ELSE IF hdr[key].v.ty = ty THEN Ok(hdr[key].v.v)
    ELSE Err("WrongEnumVariant")

\* FromPrimitive::from_i64 for RecType (derived): the variant with that code
RecType_from_i64(n) ==
    IF \E name \in RecTypeNames : RecType[name] = n
    THEN Some(CHOOSE name \in RecTypeNames : RecType[name] = n)
    ELSE None

PTUFile_time_resolution(hdr) == read_ptu_tag(hdr, TAG_GLOB_RES, "Float8")

\* mutant: the two HydraHarp T2 versions take each other's decoder
PTUFile_record_type_swapped(hdr) ==
    LET tag == read_ptu_tag(hdr, TAG_TTTR_REC_TYPE, "Int8")
    IN  IF ~tag.ok THEN tag
        ELSE LET record_type == RecType_from_i64(tag.v)
             IN  IF ~record_type.some THEN Err("InvalidHeader")
                 ELSE Ok(CASE record_type.v = "PicoHarpT3"     -> "NotImplemented"
                           [] record_type.v = "PicoHarpT2"     -> "PHT2"
                           [] record_type.v = "HydraHarpT3"    -> "NotImplemented"
                           [] record_type.v = "HydraHarpT2"    -> "HHT2_HH1"
                           [] record_type.v = "HydraHarp2T3"   -> "NotImplemented"
                           [] record_type.v = "HydraHarp2T2"   -> "HHT2_HH2"
                           [] record_type.v = "TimeHarp260NT3" -> "NotImplemented"
                           [] record_type.v = "TimeHarp260NT2" -> "HHT2_HH2"
                           [] record_type.v = "TimeHarp260PT3" -> "NotImplemented"
                           [] record_type.v = "TimeHarp260PT2" -> "HHT2_HH2")

PTUFile_record_type(hdr) ==
    LET tag == read_ptu_tag(hdr, TAG_TTTR_REC_TYPE, "Int8")
    IN  IF ~tag.ok THEN tag
        ELSE LET record_type == RecType_from_i64(tag.v)
             IN  IF ~record_type.some THEN Err("InvalidHeader")
                 ELSE Ok(CASE record_type.v = "PicoHarpT3"     -> "NotImplemented"
                           [] record_type.v = "PicoHarpT2"     -> "PHT2"
                           [] record_type.v = "HydraHarpT3"    -> "NotImplemented"
                           [] record_type.v = "HydraHarpT2"    -> "HHT2_HH2"
                           [] record_type.v = "HydraHarp2T3"   -> "NotImplemented"
                           [] record_type.v = "HydraHarp2T2"   -> "HHT2_HH1"
                           [] record_type.v = "TimeHarp260NT3" -> "NotImplemented"
                           [] record_type.v = "TimeHarp260NT2" -> "HHT2_HH2"
                           [] record_type.v = "TimeHarp260PT3" -> "NotImplemented"
                           [] record_type.v = "TimeHarp260PT2" -> "HHT2_HH2")

\* mutant: the T2 constructors build the stream without reading the resolution
PTUStream_new_skipsResolution(fmt, hdr, start_record, stop_record) ==
    LET number_of_records == read_ptu_tag(hdr, TAG_NUM_RECORDS, "Int8")
        data_offset == read_ptu_tag(hdr, TAG_DATA_OFFSET, "Int8")
        glob_res == read_ptu_tag(hdr, TAG_GLOB_RES, "Float8")
        dtime_res == read_ptu_tag(hdr, TAG_RES, "Float8")
    IN  IF ~number_of_records.ok THEN number_of_records
        ELSE IF ~data_offset.ok THEN data_offset
        ELSE IF fmt \in T2Formats
        THEN Ok(T2Stream_new(fmt, number_of_records.v, start_record, stop_record))
        ELSE IF ~glob_res.ok THEN glob_res
        ELSE IF ~dtime_res.ok THEN dtime_res
        ELSE Ok(HHT3_HH2Stream_new(number_of_records.v, start_record, stop_record,
                                   glob_res.v, dtime_res.v))

\* XStream::new(ptu_file, start_record, stop_record) for the macro-generated
\* T2 streams and for HHT3_HH2Stream: the tags are read in the order of the
\* source, the first failed read is returned, and the struct is built only
\* after the last of them
PTUStream_new(fmt, hdr, start_record, stop_record) ==
    LET number_of_records == read_ptu_tag(hdr, TAG_NUM_RECORDS, "Int8")
        data_offset == read_ptu_tag(hdr, TAG_DATA_OFFSET, "Int8")
        glob_res == read_ptu_tag(hdr, TAG_GLOB_RES, "Float8")
        dtime_res == read_ptu_tag(hdr, TAG_RES, "Float8")
    IN  IF ~number_of_records.ok THEN number_of_records
        ELSE IF ~data_offset.ok THEN data_offset
        ELSE IF ~glob_res.ok THEN glob_res
        ELSE IF fmt \in T2Formats
        THEN Ok(T2Stream_new(fmt, number_of_records.v, start_record, stop_record))
        ELSE IF ~dtime_res.ok THEN dtime_res
        ELSE Ok(HHT3_HH2Stream_new(number_of_records.v, start_record, stop_record,
                                   glob_res.v, dtime_res.v))

(***************************************************************************)
(* The public engine functions, up to the call of compute().  How a call   *)
(* ends is [res, err, streams]: res is "Ok" (a result struct is returned), *)
(* "Err" (err holds the Error variant) or "panic" (the thread unwinds: an  *)
(* .unwrap() of an Err, or panic!); streams lists the streams constructed. *)
(***************************************************************************)
Panicked == [res |-> "panic", err |-> "none", streams |-> <<>>]
Failed(e) == [res |-> "Err", err |-> e, streams |-> <<>>]
Computed(streams) == [res |-> "Ok", err |-> "none", streams |-> streams]

\* let stream = XStream::new(x, start_record, stop_record)?; ... Ok(tt.compute())
StreamArm(fmt, hdr, start_record, stop_record) ==
    LET stream_ == PTUStream_new(fmt, hdr, start_record, stop_record)
    IN  IF stream_.ok THEN Computed(<<fmt>>) ELSE Failed(stream_.err)

timetrace_match(record_type, hdr) ==
    CASE record_type \in T2Formats -> StreamArm(record_type, hdr, None, None)
      [] record_type = "NotImplemented" -> Panicked

\* mutant: the HHT2_HH2 arm streams the file
lifetime_match_streamsHH2(record_type, hdr) ==
    CASE record_type \in {"PHT2", "HHT2_HH1"} -> Failed("NotImplemented")
      [] record_type \in {"HHT2_HH2", "HHT3_HH2"} -> StreamArm(record_type, hdr, None, None)
      [] record_type = "NotImplemented" -> Panicked

lifetime_match(record_type, hdr) ==
    CASE record_type \in T2Formats -> Failed("NotImplemented")
      [] record_type = "HHT3_HH2" -> StreamArm("HHT3_HH2", hdr, None, None)
      [] record_type = "NotImplemented" -> Panicked

g3_sync_match(record_type, hdr) ==
    CASE record_type \in T2Formats -> Failed("NotImplemented")
      [] record_type = "HHT3_HH2" -> StreamArm("HHT3_HH2", hdr, None, None)
      [] record_type = "NotImplemented" -> Panicked

g3_match(record_type, hdr) ==
    CASE record_type \in Formats -> StreamArm(record_type, hdr, None, None)
      [] record_type = "NotImplemented" -> Panicked

zerofinder_match(record_type, hdr) ==
    CASE record_type \in Formats -> StreamArm(record_type, hdr, None, None)
      [] record_type = "NotImplemented" -> Panicked

g2_asymmetric_match(record_type, hdr) ==
    CASE record_type \in T2Formats -> StreamArm(record_type, hdr, None, None)
      [] record_type = "NotImplemented" -> Panicked

\* g2_symmetric: G2::init(params, x.time_resolution()?) for the T2 formats,
\* then one stream per record range (n_ranges of them), or one stream over
\* the whole file when record_ranges is None
g2_symmetric_match(record_type, hdr, record_ranges) ==
    CASE record_type \in Formats ->
            IF record_type \in T2Formats /\ ~PTUFile_time_resolution(hdr).ok
            THEN Failed(PTUFile_time_resolution(hdr).err)
            ELSE LET n == IF record_ranges.some THEN record_ranges.v ELSE 1
                     stream_ == PTUStream_new(record_type, hdr, None, None)
                 IN  IF n = 0 THEN Computed(<<>>)
                     ELSE IF stream_.ok THEN Computed([i \in 1..n |-> record_type])
                     ELSE Failed(stream_.err)
      [] record_type = "NotImplemented" -> Panicked

\* match x.record_type().unwrap() { ... } of each engine
Engines ==
    {"timetrace", "lifetime", "g2_asymmetric", "g2_symmetric", "g3", "g3_sync",
     "zerofinder"}

engine_match(engine, record_type, hdr, record_ranges) ==
    CASE engine = "timetrace"     -> timetrace_match(record_type, hdr)
      [] engine = "lifetime"      -> lifetime_match(record_type, hdr)
      [] engine = "g2_asymmetric" -> g2_asymmetric_match(record_type, hdr)
      [] engine = "g2_symmetric"  -> g2_symmetric_match(record_type, hdr, record_ranges)
      [] engine = "g3"            -> g3_match(record_type, hdr)
      [] engine = "g3_sync"       -> g3_sync_match(record_type, hdr)
      [] engine = "zerofinder"    -> zerofinder_match(record_type, hdr)

engine_call(engine, hdr, record_ranges) ==
    LET record_type == PTUFile_record_type(hdr)
    IN  IF ~record_type.ok THEN Panicked
        ELSE engine_match(engine, record_type.v, hdr, record_ranges)

(***************************************************************************)
(* SpecDispatch: a header with each of its five tags absent, present with  *)
(* the kind the library asks for, or present with another kind (PTUFile's  *)
(* fields are public, so a header need not come from read_ptu_header);     *)
(* record_type(), a stream constructor or an engine is called on it.       *)
(***************************************************************************)
MaxRanges == 2

RecTypeTags ==
    {None, Some(PTUTag("Float8", 66051)), Some(PTUTag("Int8", 0))}
      \cup {Some(PTUTag("Int8", RecType[name])) : name \in RecTypeNames}

IntTags == {None, Some(PTUTag("Int8", 2)), Some(PTUTag("Float8", 2))}

FloatTags(v) == {None, Some(PTUTag("Float8", v)), Some(PTUTag("Int8", v))}

Headers ==
    {h \in [Tags -> RecTypeTags \cup IntTags \cup FloatTags(12500) \cup FloatTags(4)] :
        /\ h[TAG_TTTR_REC_TYPE] \in RecTypeTags
        /\ h[TAG_NUM_RECORDS] \in IntTags
        /\ h[TAG_DATA_OFFSET] \in IntTags
        /\ h[TAG_GLOB_RES] \in FloatTags(12500)
        /\ h[TAG_RES] \in FloatTags(4)}

InitDispatch ==
    /\ IdleRing
    /\ IdleStream
    /\ IdleDecode
    /\ IdleG2
    /\ IdleEng
    /\ header \in Headers
    /\ outcome = NoOutcome

Called(call, result) ==
    /\ outcome' = [call |-> call, result |-> result]
    /\ UNCHANGED <<ringVars, streamVars, decodeVars, g2Vars, engVars, header>>

\* a PTUFile value exists
Loaded == header # NoHeader

RecordTypeCall ==
    /\ Loaded
    /\ Called("record_type", PTUFile_record_type(header))

StreamNew ==
    /\ Loaded
    /\ \E fmt \in Formats, start_record \in {None, Some(1)} :
          Called("new", [fmt |-> fmt, start_record |-> start_record,
                         r |-> PTUStream_new(fmt, header, start_record, None)])

Timetrace ==
    /\ Loaded
    /\ Called("timetrace", engine_call("timetrace", header, None))

Lifetime ==
    /\ Loaded
    /\ Called("lifetime", engine_call("lifetime", header, None))

G3 ==
    /\ Loaded
    /\ Called("g3", engine_call("g3", header, None))

G3Sync ==
    /\ Loaded
    /\ Called("g3_sync", engine_call("g3_sync", header, None))

Zerofinder ==
    /\ Loaded
    /\ Called("zerofinder", engine_call("zerofinder", header, None))

G2Asymmetric ==
    /\ Loaded
    /\ Called("g2_asymmetric", engine_call("g2_asymmetric", header, None))

G2Symmetric ==
    /\ Loaded
    /\ \E record_ranges \in {None} \cup {Some(n) : n \in 0..MaxRanges} :
          Called("g2_symmetric", engine_call("g2_symmetric", header, record_ranges))

(***************************************************************************)
(* Header and dispatch claims.  `outcome` holds the last call.             *)
(***************************************************************************)
(* C13: PTUFile::record_type maps the RecType code 0x00010203 to PHT2,     *)
(* 0x00010204 (HydraHarpT2) to HHT2_HH1, 0x01010204 (HydraHarp2T2) to      *)
(* HHT2_HH2, 0x00010205 and 0x00010206 to HHT2_HH2, and the T3 codes       *)
(* 0x00010303, 0x00010304, 0x01010304, 0x00010305, 0x00010306 to           *)
(* NotImplemented.                                                         *)
C13_RecordTypeMapping ==
    (/\ outcome.call = "record_type"
     /\ header[TAG_TTTR_REC_TYPE].some
     /\ header[TAG_TTTR_REC_TYPE].v.ty = "Int8") =>
        LET code == header[TAG_TTTR_REC_TYPE].v.v
        IN  /\ code = 66051 => outcome.result = Ok("PHT2")
            /\ code = 66052 => outcome.result = Ok("HHT2_HH1")
            /\ code = 16843268 => outcome.result = Ok("HHT2_HH2")
            /\ code \in {66053, 66054} => outcome.result = Ok("HHT2_HH2")
            /\ code \in {66307, 66308, 16843524, 66309, 66310} =>
                  outcome.result = Ok("NotImplemented")

(* C14: any public engine function (timetrace, lifetime, g2, g3, g3_sync,  *)
(* zerofinder) invoked on a file whose RecType code is recognised but      *)
(* unsupported (record_type() = NotImplemented) returns the error value    *)
(* Error::NotImplemented instead of aborting, and constructs no stream.    *)
C14_UnsupportedIsErr ==
    (/\ outcome.call \in Engines
     /\ PTUFile_record_type(header) = Ok("NotImplemented")) =>
        outcome.result = Failed("NotImplemented")

(* C15: lifetime and g3_sync on a file whose record format is PHT2,        *)
(* HHT2_HH1 or HHT2_HH2 return Err(Error::NotImplemented) without          *)
(* constructing a stream; only HHT3_HH2 leads to a computed histogram.     *)
C15_T3OnlyEngines ==
    /\ outcome.call \in {"lifetime", "g3_sync"} =>
          LET record_type == PTUFile_record_type(header)
          IN  /\ (record_type.ok /\ record_type.v \in T2Formats) =>
                    outcome.result = Failed("NotImplemented")
              /\ outcome.result.res = "Ok" =>
                    (record_type.ok /\ record_type.v = "HHT3_HH2")
    /\ Loaded =>
          \A engine \in {"lifetime", "g3_sync"} :
              /\ \A fmt \in T2Formats :
                    engine_match(engine, fmt, header, None) = Failed("NotImplemented")
              /\ \A record_type \in Formats \cup {"NotImplemented"} :
                    engine_match(engine, record_type, header, None).res = "Ok" =>
                        /\ record_type = "HHT3_HH2"
                        /\ engine_match(engine, record_type, header, None).streams
                              = <<"HHT3_HH2">>
              /\ PTUStream_new("HHT3_HH2", header, None, None).ok =>
                    engine_match(engine, "HHT3_HH2", header, None)
                       = Computed(<<"HHT3_HH2">>)

\* g3_sync called on a HydraHarp2T2 file whose other tags are all in order
C15_Witness ==
    /\ outcome.call = "g3_sync"
    /\ header[TAG_TTTR_REC_TYPE] = Some(PTUTag("Int8", 16843268))
    /\ PTUStream_new(PTUFile_record_type(header).v, header, None, None).ok
    /\ PTUStream_new("HHT3_HH2", header, None, None).ok
    /\ outcome.result = Failed("NotImplemented")

(* C16: every stream constructor returns Err(InvalidHeader) when a tag it  *)
(* requires (TTResult_NumberOfRecords, DataOffset,                         *)
(* MeasDesc_GlobalResolution, and for HHT3_HH2 also MeasDesc_Resolution)   *)
(* is absent from the header, and Err(WrongEnumVariant) when the tag is    *)
(* present with another PTUTag kind than the one requested; in both cases  *)
(* no stream value is produced.                                            *)
C16_ConstructorHeaderErrors ==
    outcome.call = "new" =>
        LET fmt == outcome.result.fmt
            r == outcome.result.r
            Required == IF fmt \in T2Formats
                        THEN {TAG_NUM_RECORDS, TAG_DATA_OFFSET, TAG_GLOB_RES}
                        ELSE {TAG_NUM_RECORDS, TAG_DATA_OFFSET, TAG_GLOB_RES, TAG_RES}
            Requested(t) == IF t \in {TAG_NUM_RECORDS, TAG_DATA_OFFSET}
                            THEN "Int8" ELSE "Float8"
            absent == {t \in Required : ~header[t].some}
            wrong == {t \in Required : header[t].some /\ header[t].v.ty # Requested(t)}
        IN  /\ (absent # {} \/ wrong # {}) =>
                  (~r.ok /\ r.err \in {"InvalidHeader", "WrongEnumVariant"})
            /\ (absent # {} /\ wrong = {}) => r = Err("InvalidHeader")
            /\ (wrong # {} /\ absent = {}) => r = Err("WrongEnumVariant")
            /\ (~r.ok /\ r.err = "InvalidHeader") => absent # {}
            /\ (~r.ok /\ r.err = "WrongEnumVariant") => wrong # {}
            /\ r.ok => (absent = {} /\ wrong = {} /\ r.v.fmt = fmt)

\* PHT2Stream::new on a header whose only fault is the missing
\* MeasDesc_GlobalResolution, the tag the constructor reads last
C16_Witness ==
    /\ outcome.call = "new"
    /\ outcome.result.fmt = "PHT2"
    /\ header[TAG_NUM_RECORDS] = Some(PTUTag("Int8", 2))
    /\ header[TAG_DATA_OFFSET] = Some(PTUTag("Int8", 2))
    /\ header[TAG_GLOB_RES] = None
    /\ outcome.result.r = Err("InvalidHeader")

(* C17: when the header lacks the TTResultFormat_TTTRRecType tag, holds it *)
(* with a non-Int kind, or holds an Int that is none of the RecType codes, *)
(* every public engine function returns the corresponding error            *)
(* (InvalidHeader or WrongEnumVariant) to its caller as an Err value; no   *)
(* header error is swallowed or turned into an abort.                      *)
C17_HeaderErrorSurfaces ==
    outcome.call \in Engines =>
        LET tag == header[TAG_TTTR_REC_TYPE]
        IN  /\ ~tag.some => outcome.result = Failed("InvalidHeader")
            /\ (tag.some /\ tag.v.ty # "Int8") =>
                  outcome.result = Failed("WrongEnumVariant")
            /\ (tag.some /\ tag.v.ty = "Int8"
                  /\ \A name \in RecTypeNames : RecType[name] # tag.v.v) =>
                  outcome.result = Failed("InvalidHeader")

NextDispatch ==
    \/ RecordTypeCall
    \/ StreamNew
    \/ Timetrace
    \/ Lifetime
    \/ G2Asymmetric
    \/ G2Symmetric
    \/ G3
    \/ G3Sync
    \/ Zerofinder

SpecDispatch == InitDispatch /\ [][NextDispatch]_vars

(***************************************************************************)
(* The g2 engines.  Times are in picoseconds: correlation_window,          *)
(* resolution and time_resolution are the f64 seconds of the source times  *)
(* 1e12, so that `(a / b) as u64` of two of them is a \div b.              *)
(***************************************************************************)
MAX_BUFFER_SIZE == 4096

\* `x as u64` of an f64 above the u64 range saturates at u64::MAX, which is
\* beyond the integers TLC evaluates: the largest one it does stands for it
\* (the value is only ever multiplied by a zero n_bins)
U64_MAX == 2147483647

\* (correlation_window / (n_bins as f64)) as u64 with n_bins = 0: the f64
\* quotient is NaN for 0.0 / 0.0, cast to 0, and infinite otherwise
CastOfDivisionByZero(correlation_window) ==
    IF correlation_window = 0 THEN 0 ELSE U64_MAX

\* G2::init (g2_symmetric.rs); G2::compute of g2.rs, of zero_finder.rs and
\* of g3.rs compute the same values
G2_init(params, time_resolution) ==
    LET n_bins == params.correlation_window \div params.resolution
        resolution == IF n_bins = 0
                      THEN CastOfDivisionByZero(params.correlation_window)
                      ELSE (params.correlation_window \div time_resolution) \div n_bins
    IN  [central_bin |-> (n_bins * 2) \div 2,
         n_bins |-> n_bins * 2,
         resolution |-> resolution,
         correlation_window |-> n_bins * resolution,
         real_resolution |-> params.resolution,
         channel_1 |-> params.channel_1,
         channel_2 |-> params.channel_2]

\* for click in buff.iter(): the values the iterator yields, in its order
RECURSIVE CircularBuffer_yield(_, _)
CircularBuffer_yield(b, i) ==
    IF IterCircularBuffer_slot(b, i) = -1 THEN <<>>
    ELSE <<b.buffer[IterCircularBuffer_slot(b, i) + 1]>>
            \o CircularBuffer_yield(b, IterCircularBuffer_next(b, i))

\* the inner loop of compute over the clicks of the other channel's buffer:
\* side 1 is the channel_1 branch, side 2 the channel_2 branch.  acc is
\* [hist, incs, ok]: the histogram, the indices incremented so far, and
\* ok = FALSE once `tof - click` has underflowed in a build that checks it
\* (a build that does not check wraps to a delta above the window).
RECURSIVE G2_correlate(_, _, _, _, _, _)
\* mutant: the channel_1 branch without the - 1 of its index
G2_correlate_noMinusOne(tt, side, tof, clicks, checked, acc) ==
    IF clicks = <<>> THEN acc
    ELSE LET click == Head(clicks)
             delta == tof - click
             hist_idx == IF side = 1
                         THEN tt.central_bin - delta \div tt.resolution
                         ELSE tt.central_bin + delta \div tt.resolution
         IN  IF tof < click
             THEN IF checked THEN [acc EXCEPT !.ok = FALSE] ELSE acc
             ELSE IF delta < tt.correlation_window
             THEN G2_correlate(tt, side, tof, Tail(clicks), checked,
                               [acc EXCEPT !.hist[hist_idx + 1] = @ + 1,
                                           !.incs = Append(@, hist_idx)])
             ELSE acc

G2_correlate(tt, side, tof, clicks, checked, acc) ==
    IF clicks = <<>> THEN acc
    ELSE LET click == Head(clicks)
             delta == tof - click
             hist_idx == IF side = 1
                         THEN tt.central_bin - delta \div tt.resolution - 1
                         ELSE tt.central_bin + delta \div tt.resolution
         IN  IF tof < click
             THEN IF checked THEN [acc EXCEPT !.ok = FALSE] ELSE acc
             ELSE IF delta < tt.correlation_window
             THEN G2_correlate(tt, side, tof, Tail(clicks), checked,
                               [acc EXCEPT !.hist[hist_idx + 1] = @ + 1,
                                           !.incs = Append(@, hist_idx)])
             ELSE acc

\* mutant: two independent ifs, an event can take both branches
G2_record_bothBranches(tt, rec, checked, g) ==
    LET tof == rec.tof
        channel == rec.channel
        acc == [hist |-> g.out_hist, incs |-> g.incs, ok |-> TRUE]
        b1 == IF channel = tt.channel_1 THEN CircularBuffer_push(g.buff_1, tof)
              ELSE g.buff_1
        r1 == IF channel = tt.channel_1
              THEN G2_correlate(tt, 1, tof,
                                CircularBuffer_yield(g.buff_2, CircularBuffer_iter(g.buff_2)),
                                checked, acc)
              ELSE acc
        b2 == IF channel = tt.channel_2 THEN CircularBuffer_push(g.buff_2, tof)
              ELSE g.buff_2
        r2 == IF channel = tt.channel_2
              THEN G2_correlate(tt, 2, tof,
                                CircularBuffer_yield(b1, CircularBuffer_iter(b1)),
                                checked, r1)
              ELSE r1
    IN  [g EXCEPT !.buff_1 = b1, !.buff_2 = b2, !.out_hist = r2.hist,
                  !.incs = r2.incs,
                  !.st = IF r2.ok THEN g.st ELSE "panic"]

\* mutant: only the newest click of the other channel is looked at
G2_record_newestOnly(tt, rec, checked, g) ==
    LET tof == rec.tof
        channel == rec.channel
        acc == [hist |-> g.out_hist, incs |-> g.incs, ok |-> TRUE]
        first(q) == IF q = <<>> THEN q ELSE <<Head(q)>>
    IN  IF channel = tt.channel_1
        THEN LET r == G2_correlate(tt, 1, tof,
                          first(CircularBuffer_yield(g.buff_2, CircularBuffer_iter(g.buff_2))),
                          checked, acc)
             IN  [g EXCEPT !.buff_1 = CircularBuffer_push(g.buff_1, tof),
                           !.out_hist = r.hist, !.incs = r.incs,
                           !.st = IF r.ok THEN g.st ELSE "panic"]
        ELSE IF channel = tt.channel_2
        THEN LET r == G2_correlate(tt, 2, tof,
                          first(CircularBuffer_yield(g.buff_1, CircularBuffer_iter(g.buff_1))),
                          checked, acc)
             IN  [g EXCEPT !.buff_2 = CircularBuffer_push(g.buff_2, tof),
                           !.out_hist = r.hist, !.incs = r.incs,
                           !.st = IF r.ok THEN g.st ELSE "panic"]
        ELSE g

\* mutant: the channel_2 branch takes the index form of the channel_1 branch
G2_record_sameForm(tt, rec, checked, g) ==
    LET tof == rec.tof
        channel == rec.channel
        acc == [hist |-> g.out_hist, incs |-> g.incs, ok |-> TRUE]
    IN  IF channel = tt.channel_1
        THEN LET r == G2_correlate(tt, 1, tof,
                          CircularBuffer_yield(g.buff_2, CircularBuffer_iter(g.buff_2)),
                          checked, acc)
             IN  [g EXCEPT !.buff_1 = CircularBuffer_push(g.buff_1, tof),
                           !.out_hist = r.hist, !.incs = r.incs,
                           !.st = IF r.ok THEN g.st ELSE "panic"]
        ELSE IF channel = tt.channel_2
        THEN LET r == G2_correlate(tt, 1, tof,
                          CircularBuffer_yield(g.buff_1, CircularBuffer_iter(g.buff_1)),
                          checked, acc)
             IN  [g EXCEPT !.buff_2 = CircularBuffer_push(g.buff_2, tof),
                           !.out_hist = r.hist, !.incs = r.incs,
                           !.st = IF r.ok THEN g.st ELSE "panic"]
        ELSE g

\* the body of `for rec in streamer.into_iter()` for one event: g holds the
\* locals of compute (buff_1, buff_2) and the histogram
G2_record(tt, rec, checked, g) ==
    LET tof == rec.tof
        channel == rec.channel
        acc == [hist |-> g.out_hist, incs |-> g.incs, ok |-> TRUE]
    IN  IF channel = tt.channel_1
        THEN LET r == G2_correlate(tt, 1, tof,
                          CircularBuffer_yield(g.buff_2, CircularBuffer_iter(g.buff_2)),
                          checked, acc)
             IN  [g EXCEPT !.buff_1 = CircularBuffer_push(g.buff_1, tof),
                           !.out_hist = r.hist, !.incs = r.incs,
                           !.st = IF r.ok THEN g.st ELSE "panic"]
        ELSE IF channel = tt.channel_2
        THEN LET r == G2_correlate(tt, 2, tof,
                          CircularBuffer_yield(g.buff_1, CircularBuffer_iter(g.buff_1)),
                          checked, acc)
             IN  [g EXCEPT !.buff_2 = CircularBuffer_push(g.buff_2, tof),
                           !.out_hist = r.hist, !.incs = r.incs,
                           !.st = IF r.ok THEN g.st ELSE "panic"]
        ELSE g

\* mutant: the ring buffers outlive the call of compute
G2_compute_enter_keepsBuffers(g, range) ==
    [g EXCEPT !.st = "loop",
              !.rng = @ + 1,
              !.stream = T2Stream_new("PHT2", Len(g.file),
                                      range.start_record, range.stop_record)]

\* XStream::new(x, start, stop)? and the entry of compute up to its loop:
\* a stream on the range and two empty ring buffers
G2_compute_enter(g, range) ==
    [g EXCEPT !.st = "loop",
              !.rng = @ + 1,
              !.stream = T2Stream_new("PHT2", Len(g.file),
                                      range.start_record, range.stop_record),
              !.buff_1 = CircularBuffer_new(MAX_BUFFER_SIZE),
              !.buff_2 = CircularBuffer_new(MAX_BUFFER_SIZE)]

\* the end of compute: the delay axis is filled in
G2_compute_leave(g) ==
    [g EXCEPT !.st = "ranges",
              !.out_t = [i \in 1..g.tt.n_bins |->
                            ((i - 1) - g.tt.central_bin) * g.tt.real_resolution]]

(***************************************************************************)
(* SpecG2: one call of g2 (g2.rs, or g2_symmetric.rs with record_ranges)   *)
(* on a PHT2 file with a time resolution of 1 ps, a correlation window of  *)
(* 200 ps and a resolution of 50 ps.  The record at position i of the file *)
(* is a photon of channel 1 or 2 with time tag TofAt(i), or an overflow    *)
(* record.  The state is taken after the histograms are allocated; the     *)
(* steps are the entry of compute for the next range, one turn of its      *)
(* loop, its end, and the return of g2.                                    *)
(***************************************************************************)
MaxG2File == 4

TofAt(i) == IF i <= 4 THEN <<100, 150, 200, 260>>[i] ELSE 260 + 70 * (i - 4)

G2RecordsAt(i) == {PHWord(1, TofAt(i)), PHWord(2, TofAt(i)), <<61440, 0>>}

G2Files ==
    UNION {{f \in [1..n -> UNION {G2RecordsAt(i) : i \in 1..n}] :
               \A i \in 1..n : f[i] \in G2RecordsAt(i)} : n \in 0..MaxG2File}

Range(a, b) == [start_record |-> Some(a), stop_record |-> Some(b)]
WholeFile == [start_record |-> None, stop_record |-> None]

\* one range [a, b), and lists of up to two ranges, the second after the first
G2Ranges == {Range(a, b) : a \in 0..MaxG2File, b \in 0..MaxG2File}
G2RangeLists ==
    {<<>>} \cup {<<r>> : r \in G2Ranges}
      \cup {<<r1, r2>> : r1 \in G2Ranges,
                         r2 \in {x \in G2Ranges : x.start_record.v < x.stop_record.v}}

OrderedRanges(l) ==
    /\ \A i \in 1..Len(l) : l[i].start_record.v <= l[i].stop_record.v
    /\ \A i \in 1..(Len(l) - 1) : l[i].stop_record.v <= l[i + 1].start_record.v

G2Params(channel_1, channel_2) ==
    [channel_1 |-> channel_1, channel_2 |-> channel_2,
     correlation_window |-> 200, resolution |-> 50]

G2Call(variant, listed, ranges, f, channel_2) ==
    LET tt == G2_init(G2Params(1, channel_2), 1)
    IN  [st |-> "ranges", variant |-> variant, listed |-> listed, tt |-> tt,
         file |-> f, ranges |-> ranges, rng |-> 0, stream |-> NoStream,
         buff_1 |-> CircularBuffer_new(MAX_BUFFER_SIZE),
         buff_2 |-> CircularBuffer_new(MAX_BUFFER_SIZE),
         out_hist |-> [i \in 1..tt.n_bins |-> 0],
         out_t |-> [i \in 1..tt.n_bins |-> 0],
         incs |-> <<>>]

InitG2 ==
    /\ IdleRing
    /\ IdleStream
    /\ IdleDecode
    /\ IdleDispatch
    /\ IdleEng
    /\ \E f \in G2Files, channel_2 \in {1, 2} :
          \* g2.rs: one stream on [start_record, stop_record)
          \/ \E r \in {WholeFile} \cup {x \in G2Ranges : OrderedRanges(<<x>>)} :
                g2 = G2Call("asymmetric", FALSE, <<r>>, f, channel_2)
          \* g2_symmetric.rs without record_ranges: one stream on the whole file
          \/ g2 = G2Call("symmetric", FALSE, <<WholeFile>>, f, channel_2)
          \* g2_symmetric.rs with record_ranges: one stream per range
          \/ \E l \in {x \in G2RangeLists : OrderedRanges(x)} :
                g2 = G2Call("symmetric", TRUE, l, f, channel_2)

G2Compute ==
    /\ g2.st = "ranges"
    /\ g2.rng < Len(g2.ranges)
    /\ g2' = G2_compute_enter(g2, g2.ranges[g2.rng + 1])
    /\ UNCHANGED <<ringVars, streamVars, decodeVars, dispatchVars, engVars>>

G2Event ==
    /\ g2.st = "loop"
    /\ LET n == T2Stream_next(g2.stream, g2.file)
       IN  /\ n.ret.some
           /\ \E checked \in BOOLEAN :
                 g2' = G2_record(g2.tt, n.ret.v, checked, [g2 EXCEPT !.stream = n.self])
    /\ UNCHANGED <<ringVars, streamVars, decodeVars, dispatchVars, engVars>>

G2EndOfStream ==
    /\ g2.st = "loop"
    /\ LET n == T2Stream_next(g2.stream, g2.file)
       IN  /\ ~n.ret.some
           /\ g2' = G2_compute_leave([g2 EXCEPT !.stream = n.self])
    /\ UNCHANGED <<ringVars, streamVars, decodeVars, dispatchVars, engVars>>

G2Return ==
    /\ g2.st = "ranges"
    /\ g2.rng = Len(g2.ranges)
    /\ g2' = [g2 EXCEPT !.st = "done"]
    /\ UNCHANGED <<ringVars, streamVars, decodeVars, dispatchVars, engVars>>

(***************************************************************************)
(* g2 claims.                                                              *)
(***************************************************************************)
\* the events a stream constructed on `range` of the file yields until None
RECURSIVE StreamAll(_, _)
StreamAll(self, f) ==
    LET n == T2Stream_next(self, f)
    IN  IF n.ret.some THEN <<n.ret.v>> \o StreamAll(n.self, f) ELSE <<>>

RangeStream(range) ==
    StreamAll(T2Stream_new("PHT2", Len(g2.file), range.start_record, range.stop_record),
              g2.file)

\* the core loop run on `events` from empty ring buffers and a zero histogram
RECURSIVE G2_loop(_, _, _)
G2_loop(tt, events, g) ==
    IF events = <<>> THEN g
    ELSE G2_loop(tt, Tail(events), G2_record(tt, Head(events), FALSE, g))

AloneHist(events) ==
    G2_loop(g2.tt, events,
            [st |-> "loop",
             buff_1 |-> CircularBuffer_new(MAX_BUFFER_SIZE),
             buff_2 |-> CircularBuffer_new(MAX_BUFFER_SIZE),
             out_hist |-> [i \in 1..g2.tt.n_bins |-> 0],
             incs |-> <<>>]).out_hist

AddHist(h1, h2) == [bin \in 1..Len(h1) |-> h1[bin] + h2[bin]]

\* the element-wise sum of the histograms of the first n ranges, each alone
RECURSIVE SumOfRanges(_)
SumOfRanges(n) ==
    IF n = 0 THEN [bin \in 1..g2.tt.n_bins |-> 0]
    ELSE AddHist(SumOfRanges(n - 1), AloneHist(RangeStream(g2.ranges[n])))

\* the file of the four events (ch1, 100), (ch2, 150), (ch1, 200), (ch2, 260)
FourEvents == <<PHWord(1, 100), PHWord(2, 150), PHWord(1, 200), PHWord(2, 260)>>

FourEventsRun ==
    /\ g2.st = "done"
    /\ g2.file = FourEvents
    /\ g2.tt.channel_1 = 1 /\ g2.tt.channel_2 = 2
    /\ g2.ranges = <<WholeFile>>

(* C18 as stated: g2 with cw_ticks = 200 and resolution_ticks = 50         *)
(* (central_bin = 4, 8 bins) over the four events (ch1, 100), (ch2, 150),  *)
(* (ch1, 200), (ch2, 260) performs exactly four increments, at             *)
(* central_bin+1, central_bin-2, central_bin+1 and central_bin-2, so the   *)
(* final histogram has 2 counts in bin central_bin+1, 2 counts in bin      *)
(* central_bin-2 and 0 elsewhere.                                          *)
C18_FourIncrementsAsStated ==
    FourEventsRun =>
        /\ g2.tt.central_bin = 4 /\ g2.tt.n_bins = 8
        /\ g2.tt.correlation_window = 200 /\ g2.tt.resolution = 50
        /\ g2.incs = <<4 + 1, 4 - 2, 4 + 1, 4 - 2>>
        /\ g2.out_hist = [i \in 1..8 |-> IF i - 1 \in {4 + 1, 4 - 2} THEN 2 ELSE 0]

(* C18, amended: over these four events g2 (either variant) performs       *)
(* exactly four increments, at central_bin+1 (delta 50), central_bin-2     *)
(* (delta 50), central_bin+1 (delta 60) and central_bin+3 (delta 160: the  *)
(* last event also pairs with the first), so the final histogram has 2     *)
(* counts in bin central_bin+1, 1 in bin central_bin-2, 1 in bin           *)
(* central_bin+3 and 0 elsewhere.                                          *)
C18_FourIncrements ==
    FourEventsRun =>
        /\ g2.tt.central_bin = 4 /\ g2.tt.n_bins = 8
        /\ g2.tt.correlation_window = 200 /\ g2.tt.resolution = 50
        /\ g2.incs = <<4 + 1, 4 - 2, 4 + 1, 4 + 3>>
        /\ g2.out_hist = [i \in 1..8 |-> CASE i - 1 = 4 + 1 -> 2
                                           [] i - 1 = 4 - 2 -> 1
                                           [] i - 1 = 4 + 3 -> 1
                                           [] OTHER -> 0]

\* the symmetric engine has returned from the four events
C18_Witness == FourEventsRun /\ g2.variant = "symmetric" /\ Len(g2.incs) = 4

(* C19: g2 (asymmetric and symmetric) called with channel_1 = channel_2    *)
(* has an all-zero histogram for every event stream: each event takes only *)
(* the first branch, and the buffer it iterates is never pushed to.        *)
C19_SameChannelZero ==
    (g2.st # "none" /\ g2.tt.channel_1 = g2.tt.channel_2) =>
        /\ \A i \in 1..g2.tt.n_bins : g2.out_hist[i] = 0
        /\ g2.incs = <<>>
        /\ CircularBuffer_len(g2.buff_2) = 0
        /\ g2.st # "panic"

\* a call with channel_1 = channel_2 has returned after three events on that
\* channel, the last two 60 ps apart
C19_Witness ==
    /\ g2.st = "done"
    /\ g2.tt.channel_1 = g2.tt.channel_2
    /\ g2.file = <<PHWord(1, 100), PHWord(2, 150), PHWord(1, 200), PHWord(1, 260)>>
    /\ g2.ranges = <<WholeFile>>
    /\ CircularBuffer_len(g2.buff_1) = 3

(* C20: symmetric g2 with a list of record ranges returns a histogram      *)
(* equal to the element-wise sum of the histograms of the core loop run on *)
(* each range alone, with fresh ring buffers and a fresh stream: no pair   *)
(* of events of two ranges is counted, and the counts of earlier ranges    *)
(* are never reset (while a range is being read the histogram is the sum   *)
(* over the ranges done plus the loop alone on the events read so far).    *)
C20_RangesAdd ==
    (g2.st # "none" /\ g2.variant = "symmetric" /\ g2.listed) =>
        g2.out_hist =
            IF g2.st = "loop"
            THEN AddHist(SumOfRanges(g2.rng - 1),
                         AloneHist(SubSeq(RangeStream(g2.ranges[g2.rng]), 1,
                                          g2.stream.click_count)))
            ELSE SumOfRanges(g2.rng)

\* two ranges, [0, 2) and [2, 4), of the four events: the call has returned
\* with one count from each range, and without the pairs across the ranges
C20_Witness ==
    /\ g2.st = "done" /\ g2.variant = "symmetric" /\ g2.listed
    /\ g2.file = FourEvents
    /\ g2.tt.channel_2 = 2
    /\ g2.ranges = <<Range(0, 2), Range(2, 4)>>
    /\ g2.incs = <<5, 5>>
    /\ g2.out_hist[6] = 2

(* C37: for every value of record_ranges (None, a non-empty list, or an     *)
(* empty list), symmetric g2 returns a delay axis t of length n_bins whose *)
(* i-th entry is (i - central_bin) scaled by the requested resolution.     *)
C37_DelayAxisAlwaysFilled ==
    (g2.st = "done" /\ g2.variant = "symmetric") =>
        /\ Len(g2.out_t) = g2.tt.n_bins
        /\ \A i \in 0..(g2.tt.n_bins - 1) :
              g2.out_t[i + 1] = (i - g2.tt.central_bin) * 50

NextG2 == G2Compute \/ G2Event \/ G2EndOfStream \/ G2Return

SpecG2 == InitG2 /\ [][NextG2]_vars

(***************************************************************************)
(* The compute loops of the engines over an event stream.  An engine run   *)
(* is the record eng: its precomputed parameters tt, the locals of compute *)
(* and the histogram; seen is the ghost list of the events read so far,    *)
(* incs the ghost list of the histogram indices incremented, forms the     *)
(* form ("neg" or "pos") of each of them.  A subtraction of two u64 whose  *)
(* mathematical result is negative panics in a build with overflow checks  *)
(* (st = "panic") and wraps to a value near 2^64 in one without: wrapped   *)
(* records that this has happened, after which the run is known to be of a *)
(* build that does not check.                                              *)
(***************************************************************************)

\* ZeroFinder::compute, the body of its loop for one event
ZeroFinder_record(tt, rec, checked, z) ==
    LET tof == rec.tof
        channel == rec.channel
    IN  IF channel = tt.channel_1
        THEN LET z1 == [z EXCEPT !.prev_tof_channel_1 = tof]
                 delta == tof - z.prev_tof_channel_2
                 hist_idx == tt.central_bin - delta \div tt.resolution - 1
             IN  IF tof < z.prev_tof_channel_2
                 THEN IF checked THEN [z1 EXCEPT !.st = "panic"] ELSE z1
                 ELSE IF delta < tt.correlation_window
                 THEN IF tt.resolution = 0 THEN [z1 EXCEPT !.st = "div0"]
                      ELSE [z1 EXCEPT !.out_hist[hist_idx + 1] = @ + 1,
                                      !.incs = Append(@, hist_idx),
                                      !.forms = Append(@, "neg")]
                 ELSE z1
        ELSE IF channel = tt.channel_2
        THEN LET z2 == [z EXCEPT !.prev_tof_channel_2 = tof]
                 delta == tof - z.prev_tof_channel_1
                 hist_idx == tt.central_bin + delta \div tt.resolution
             IN  IF tof < z.prev_tof_channel_1
                 THEN IF checked THEN [z2 EXCEPT !.st = "panic"] ELSE z2
                 ELSE IF delta < tt.correlation_window
                 THEN IF tt.resolution = 0 THEN [z2 EXCEPT !.st = "div0"]
                      ELSE [z2 EXCEPT !.out_hist[hist_idx + 1] = @ + 1,
                                      !.incs = Append(@, hist_idx),
                                      !.forms = Append(@, "pos")]
                 ELSE z2
        ELSE z

\* a u64 difference is held as the mathematical one: a negative value d
\* stands for the wrapped d + 2^64 of a build without overflow checks, which
\* is above every window and every period
WrapLt(d, bound) == d >= 0 /\ d < bound
WrapGt(d, bound) == d < 0 \/ d > bound

\* for click in click_buffer.iter(): the (tof, channel) pairs, in its order
RECURSIVE CCircularBuffer_yield(_, _)
CCircularBuffer_yield(b, i) ==
    IF IterCCircularBuffer_slot(b, i) = -1 THEN <<>>
    ELSE <<b.buffer[IterCCircularBuffer_slot(b, i) + 1]>>
            \o CCircularBuffer_yield(b, IterCCircularBuffer_next(b, i))

\* mutant: the negative form without its - 1
G3_index_noMinusOne(tt, form, tau) ==
    IF form = "neg" THEN tt.central_bin - tau \div tt.resolution
    ELSE tt.central_bin + tau \div tt.resolution

\* G3::compute: the two index forms
G3_index(tt, form, tau) ==
    IF form = "neg" THEN tt.central_bin - tau \div tt.resolution - 1
    ELSE tt.central_bin + tau \div tt.resolution

\* G3::compute: the innermost `if tau1 < correlation_window && ...` of one
\* of the six cases: an increment of the cell, or a break of the inner loop
G3_case(tt, tau1, tau2, form1, form2) ==
    IF WrapLt(tau1, tt.correlation_window) /\ WrapLt(tau2, tt.correlation_window)
    THEN IF tt.resolution = 0 THEN [do |-> "div0"]
         ELSE [do |-> "inc",
               idx |-> <<G3_index(tt, form1, tau1), G3_index(tt, form2, tau2)>>,
               forms |-> <<form1, form2>>]
    ELSE [do |-> "break"]

\* mutant: the case (channel_2, channel_1, channel_3) takes delta13 for tau2
G3_triple_delta13(tt, c1, c2, c3) ==
    LET delta12 == c1[1] - c2[1]
        delta23 == c2[1] - c3[1]
        delta13 == c1[1] - c3[1]
        chn1 == c1[2]
        chn2 == c2[2]
        chn3 == c3[2]
        skip == [do |-> "skip"]
    IN  IF chn1 = tt.channel_1
        THEN IF chn2 = tt.channel_2
             THEN IF chn3 = tt.channel_3
                  THEN G3_case(tt, delta12, delta13, "neg", "neg") ELSE skip
             ELSE IF chn2 = tt.channel_3
             THEN IF chn3 = tt.channel_2
                  THEN G3_case(tt, delta13, delta12, "neg", "neg") ELSE skip
             ELSE skip
        ELSE IF chn1 = tt.channel_2
        THEN IF chn2 = tt.channel_1
             THEN IF chn3 = tt.channel_3
                  THEN G3_case(tt, delta12, delta13, "pos", "neg") ELSE skip
             ELSE IF chn2 = tt.channel_3
             THEN IF chn3 = tt.channel_1
                  THEN G3_case(tt, delta13, delta23, "pos", "pos") ELSE skip
             ELSE skip
        ELSE IF chn1 = tt.channel_3
        THEN IF chn2 = tt.channel_1
             THEN IF chn3 = tt.channel_2
                  THEN G3_case(tt, delta23, delta12, "neg", "pos") ELSE skip
             ELSE IF chn2 = tt.channel_2
             THEN IF chn3 = tt.channel_1
                  THEN G3_case(tt, delta23, delta13, "pos", "pos") ELSE skip
             ELSE skip
        ELSE skip

\* G3::compute: the body of the innermost loop after `continue`, for the
\* clicks c1 (current), c2 and c3 (buffered), each <<tof, channel>>
G3_triple(tt, c1, c2, c3) ==
    LET delta12 == c1[1] - c2[1]
        delta23 == c2[1] - c3[1]
        delta13 == c1[1] - c3[1]
        chn1 == c1[2]
        chn2 == c2[2]
        chn3 == c3[2]
        skip == [do |-> "skip"]
    IN  IF chn1 = tt.channel_1
        THEN IF chn2 = tt.channel_2
             THEN IF chn3 = tt.channel_3
                  THEN G3_case(tt, delta12, delta13, "neg", "neg") ELSE skip
             ELSE IF chn2 = tt.channel_3
             THEN IF chn3 = tt.channel_2
                  THEN G3_case(tt, delta13, delta12, "neg", "neg") ELSE skip
             ELSE skip
        ELSE IF chn1 = tt.channel_2
        THEN IF chn2 = tt.channel_1
             THEN IF chn3 = tt.channel_3
                  THEN G3_case(tt, delta12, delta23, "pos", "neg") ELSE skip
             ELSE IF chn2 = tt.channel_3
             THEN IF chn3 = tt.channel_1
                  THEN G3_case(tt, delta13, delta23, "pos", "pos") ELSE skip
             ELSE skip
        ELSE IF chn1 = tt.channel_3
        THEN IF chn2 = tt.channel_1
             THEN IF chn3 = tt.channel_2
                  THEN G3_case(tt, delta23, delta12, "neg", "pos") ELSE skip
             ELSE IF chn2 = tt.channel_2
             THEN IF chn3 = tt.channel_1
                  THEN G3_case(tt, delta23, delta13, "pos", "pos") ELSE skip
             ELSE skip
        ELSE skip

\* G3::compute: `for click_3 in click_buffer.iter()`.  acc is
\* [hist, incs, forms, triples, neg, div0]: neg is set by a subtraction whose
\* mathematical result is negative, div0 by a division by zero
RECURSIVE G3_inner(_, _, _, _, _)
\* mutant: the inner loop skips only the events later than click_2
G3_inner_tiesPass(tt, c1, c2, clicks, acc) ==
    IF clicks = <<>> THEN acc
    ELSE LET c3 == Head(clicks)
         IN  IF c3[1] > c2[1] THEN G3_inner(tt, c1, c2, Tail(clicks), acc)
             ELSE LET t == G3_triple(tt, c1, c2, c3)
                      a == [acc EXCEPT !.neg = @ \/ c1[1] < c3[1]]
                  IN  CASE t.do = "skip" -> G3_inner(tt, c1, c2, Tail(clicks), a)
                        [] t.do = "break" -> a
                        [] t.do = "div0" -> [a EXCEPT !.div0 = TRUE]
                        [] t.do = "inc" ->
                             G3_inner(tt, c1, c2, Tail(clicks),
                                      [a EXCEPT !.hist[t.idx] = @ + 1,
                                                !.incs = Append(@, t.idx),
                                                !.forms = Append(@, t.forms),
                                                !.triples = Append(@, <<c1, c2, c3>>)])

G3_inner(tt, c1, c2, clicks, acc) ==
    IF clicks = <<>> THEN acc
    ELSE LET c3 == Head(clicks)
         IN  IF c3[1] >= c2[1] THEN G3_inner(tt, c1, c2, Tail(clicks), acc)
             ELSE LET t == G3_triple(tt, c1, c2, c3)
                      a == [acc EXCEPT !.neg = @ \/ c1[1] < c3[1]]
                  IN  CASE t.do = "skip" -> G3_inner(tt, c1, c2, Tail(clicks), a)
                        [] t.do = "break" -> a
                        [] t.do = "div0" -> [a EXCEPT !.div0 = TRUE]
                        [] t.do = "inc" ->
                             G3_inner(tt, c1, c2, Tail(clicks),
                                      [a EXCEPT !.hist[t.idx] = @ + 1,
                                                !.incs = Append(@, t.idx),
                                                !.forms = Append(@, t.forms),
                                                !.triples = Append(@, <<c1, c2, c3>>)])

\* G3::compute: `for click_2 in click_buffer.iter()`
RECURSIVE G3_outer(_, _, _, _, _)
G3_outer(tt, c1, clicks, all, acc) ==
    IF clicks = <<>> \/ acc.div0 THEN acc
    ELSE LET c2 == Head(clicks)
             delta12 == c1[1] - c2[1]
             a == [acc EXCEPT !.neg = @ \/ delta12 < 0]
         IN  IF WrapGt(delta12, tt.correlation_window) THEN a
             ELSE G3_outer(tt, c1, Tail(clicks), all, G3_inner(tt, c1, c2, all, a))

\* mutant: the current event is pushed before the loops run
G3_record_pushFirst(tt, rec, checked, g) ==
    LET tof1 == rec.tof
        chn1 == rec.channel
        pushed1 == CCircularBuffer_push(g.click_buffer, tof1, chn1)
        clicks == CCircularBuffer_yield(pushed1, CCircularBuffer_iter(pushed1))
        r == G3_outer(tt, <<tof1, chn1, Len(g.seen) + 1>>, clicks, clicks,
                      [hist |-> g.out_hist, incs |-> g.incs, forms |-> g.forms,
                       triples |-> g.triples, neg |-> FALSE, div0 |-> FALSE])
    IN  IF chn1 \notin {tt.channel_1, tt.channel_2, tt.channel_3} THEN g
        ELSE IF r.neg /\ checked THEN [g EXCEPT !.st = "panic"]
        ELSE IF r.div0 THEN [g EXCEPT !.st = "div0"]
        ELSE [g EXCEPT !.out_hist = r.hist, !.incs = r.incs, !.forms = r.forms,
                       !.triples = r.triples, !.iterated = clicks,
                       !.click_buffer = pushed1]

\* G3::compute, the body of its loop for one event
G3_record(tt, rec, checked, g) ==
    LET tof1 == rec.tof
        chn1 == rec.channel
        clicks == CCircularBuffer_yield(g.click_buffer, CCircularBuffer_iter(g.click_buffer))
        r == G3_outer(tt, <<tof1, chn1, Len(g.seen) + 1>>, clicks, clicks,
                      [hist |-> g.out_hist, incs |-> g.incs, forms |-> g.forms,
                       triples |-> g.triples, neg |-> FALSE, div0 |-> FALSE])
    IN  IF chn1 \notin {tt.channel_1, tt.channel_2, tt.channel_3} THEN g
        ELSE IF r.neg /\ checked THEN [g EXCEPT !.st = "panic"]
        ELSE IF r.div0 THEN [g EXCEPT !.st = "div0"]
        ELSE [g EXCEPT !.out_hist = r.hist, !.incs = r.incs, !.forms = r.forms,
                       !.triples = r.triples, !.iterated = clicks,
                       !.click_buffer = CCircularBuffer_push(@, tof1, chn1)]

\* G3Sync::compute, before the loop: the period is the window.  The
\* parameter sets of the model have 0 < n_bins <= sync_period, which the
\* two integer divisions need.
G3Sync_init(params, sync_period) ==
    LET n_bins == sync_period \div params.resolution
    IN  [n_bins |-> n_bins,
         resolution |-> sync_period \div n_bins,
         sync_period |-> sync_period,
         real_resolution |-> params.resolution,
         channel_sync |-> params.channel_sync,
         channel_1 |-> params.channel_1,
         channel_2 |-> params.channel_2]

\* (tau % sync_period) / resolution of a u64 tau held as its mathematical
\* value: the remainder of a wrapped one is that of tau + 2^64
G3Sync_index(tt, tau) == AsUsizeRem(tau, tt.sync_period) \div tt.resolution

\* G3Sync::compute: the innermost `if idx1 < n_bins && idx2 < n_bins`
G3Sync_case(tt, tau1, tau2) ==
    LET idx1 == G3Sync_index(tt, tau1)
        idx2 == G3Sync_index(tt, tau2)
    IN  IF idx1 < tt.n_bins /\ idx2 < tt.n_bins
        THEN [do |-> "inc", idx |-> <<idx1, idx2>>]
        ELSE [do |-> "skip"]

\* mutant: the two cases take the same delays for (tau1, tau2)
G3Sync_triple_sameOrder(tt, c1, c2, c3) ==
    LET delta13 == c1[1] - c3[1]
        delta23 == c2[1] - c3[1]
        chn1 == c1[2]
        chn2 == c2[2]
        chn3 == c3[2]
        skip == [do |-> "skip"]
    IN  IF chn1 = tt.channel_1
        THEN IF chn2 = tt.channel_2
             THEN IF chn3 = tt.channel_sync
                  THEN G3Sync_case(tt, delta13, delta23) ELSE skip
             ELSE skip
        ELSE IF chn1 = tt.channel_2
        THEN IF chn2 = tt.channel_1
             THEN IF chn3 = tt.channel_sync
                  THEN G3Sync_case(tt, delta13, delta23) ELSE skip
             ELSE skip
        ELSE skip

\* G3Sync::compute: the body of the innermost loop after `continue`
G3Sync_triple(tt, c1, c2, c3) ==
    LET delta13 == c1[1] - c3[1]
        delta23 == c2[1] - c3[1]
        chn1 == c1[2]
        chn2 == c2[2]
        chn3 == c3[2]
        skip == [do |-> "skip"]
    IN  IF chn1 = tt.channel_1
        THEN IF chn2 = tt.channel_2
             THEN IF chn3 = tt.channel_sync
                  THEN G3Sync_case(tt, delta13, delta23) ELSE skip
             ELSE skip
        ELSE IF chn1 = tt.channel_2
        THEN IF chn2 = tt.channel_1
             THEN IF chn3 = tt.channel_sync
                  THEN G3Sync_case(tt, delta23, delta13) ELSE skip
             ELSE skip
        ELSE skip

\* G3Sync::compute: `for click_3 in click_buffer.iter()`; an increment ends
\* the loop.  acc is [hist, incs, visits, neg]: visits lists the triples the
\* loop body has reached, each with the cells it incremented
RECURSIVE G3Sync_inner(_, _, _, _, _)
\* mutant: the loop goes on after an increment
G3Sync_inner_noBreak(tt, c1, c2, clicks, acc) ==
    IF clicks = <<>> THEN acc
    ELSE LET c3 == Head(clicks)
         IN  IF c3[1] >= c2[1] THEN G3Sync_inner(tt, c1, c2, Tail(clicks), acc)
             ELSE LET t == G3Sync_triple(tt, c1, c2, c3)
                      a == [acc EXCEPT !.neg = @ \/ c1[1] < c3[1]]
                      visit == [c1 |-> c1, c2 |-> c2, c3 |-> c3]
                  IN  IF t.do = "inc"
                      THEN G3Sync_inner(tt, c1, c2, Tail(clicks),
                               [a EXCEPT !.hist[t.idx] = @ + 1,
                                         !.incs = Append(@, t.idx),
                                         !.visits = Append(@, visit @@ [inc |-> <<t.idx>>])])
                      ELSE G3Sync_inner(tt, c1, c2, Tail(clicks),
                                        [a EXCEPT !.visits = Append(@, visit @@ [inc |-> <<>>])])

G3Sync_inner(tt, c1, c2, clicks, acc) ==
    IF clicks = <<>> THEN acc
    ELSE LET c3 == Head(clicks)
         IN  IF c3[1] >= c2[1] THEN G3Sync_inner(tt, c1, c2, Tail(clicks), acc)
             ELSE LET t == G3Sync_triple(tt, c1, c2, c3)
                      a == [acc EXCEPT !.neg = @ \/ c1[1] < c3[1]]
                      visit == [c1 |-> c1, c2 |-> c2, c3 |-> c3]
                  IN  IF t.do = "inc"
                      THEN [a EXCEPT !.hist[t.idx] = @ + 1,
                                     !.incs = Append(@, t.idx),
                                     !.visits = Append(@, visit @@ [inc |-> <<t.idx>>])]
                      ELSE G3Sync_inner(tt, c1, c2, Tail(clicks),
                                        [a EXCEPT !.visits = Append(@, visit @@ [inc |-> <<>>])])

\* G3Sync::compute: `for click_2 in click_buffer.iter()`
RECURSIVE G3Sync_outer(_, _, _, _, _)
G3Sync_outer(tt, c1, clicks, all, acc) ==
    IF clicks = <<>> THEN acc
    ELSE LET c2 == Head(clicks)
             delta12 == c1[1] - c2[1]
             a == [acc EXCEPT !.neg = @ \/ delta12 < 0]
         IN  IF WrapGt(delta12, tt.sync_period) THEN a
             ELSE G3Sync_outer(tt, c1, Tail(clicks), all,
                               G3Sync_inner(tt, c1, c2, all, a))

\* G3Sync::compute, the body of its loop for one event
G3Sync_record(tt, rec, checked, g) ==
    LET tof1 == rec.tof
        chn1 == rec.channel
        clicks == CCircularBuffer_yield(g.click_buffer, CCircularBuffer_iter(g.click_buffer))
        \* each click with its place in the iteration, for the log of visits
        placed == [j \in 1..Len(clicks) |-> <<clicks[j][1], clicks[j][2], j>>]
        r == G3Sync_outer(tt, <<tof1, chn1, Len(g.seen) + 1>>, placed, placed,
                          [hist |-> g.out_hist, incs |-> g.incs,
                           visits |-> g.visits, neg |-> FALSE])
    IN  IF chn1 \notin {tt.channel_sync, tt.channel_1, tt.channel_2} THEN g
        ELSE IF r.neg /\ checked THEN [g EXCEPT !.st = "panic"]
        ELSE [g EXCEPT !.out_hist = r.hist, !.incs = r.incs, !.visits = r.visits,
                       !.iterated = clicks,
                       !.click_buffer = CCircularBuffer_push(@, tof1, chn1)]

\* Lifetime::compute, before the loop.  The parameter sets of the model
\* have 0 < n_bins <= sync_period: resolution is a positive number of ticks.
Lifetime_init(params, sync_period) ==
    LET n_bins == sync_period \div params.resolution
    IN  [n_bins |-> n_bins,
         resolution |-> sync_period \div n_bins,
         sync_period |-> sync_period,
         real_resolution |-> params.resolution,
         channel_sync |-> params.channel_sync,
         channel_source |-> params.channel_source]

\* ((delta % self.sync_period) / resolution) as usize
Lifetime_index(tt, delta) == AsUsizeRem(delta, tt.sync_period) \div tt.resolution

\* mutant: two independent ifs, the sync rule first
Lifetime_record_independent(tt, rec, checked, l) ==
    LET tof == rec.tof
        channel == rec.channel
        l1 == IF channel = tt.channel_sync THEN [l EXCEPT !.tof_sync = tof] ELSE l
        delta == tof - l1.tof_sync
        hist_idx == Lifetime_index(tt, delta)
    IN  IF channel = tt.channel_source
        THEN IF delta < 0 /\ checked THEN [l1 EXCEPT !.st = "panic"]
             ELSE IF hist_idx < tt.n_bins
             THEN [l1 EXCEPT !.out_hist[hist_idx + 1] = @ + 1,
                             !.incs = Append(@, hist_idx)]
             ELSE l1
        ELSE l1

\* mutant: the operands of the subtraction the other way round
Lifetime_record_reversed(tt, rec, checked, l) ==
    LET tof == rec.tof
        channel == rec.channel
        delta == l.tof_sync - tof
        hist_idx == Lifetime_index(tt, delta)
    IN  IF channel = tt.channel_source
        THEN IF delta < 0 /\ checked THEN [l EXCEPT !.st = "panic"]
             ELSE IF hist_idx < tt.n_bins
             THEN [l EXCEPT !.out_hist[hist_idx + 1] = @ + 1,
                            !.incs = Append(@, hist_idx)]
             ELSE l
        ELSE IF channel = tt.channel_sync
        THEN [l EXCEPT !.tof_sync = tof]
        ELSE l

\* Lifetime::compute, the body of its loop for one event
Lifetime_record(tt, rec, checked, l) ==
    LET tof == rec.tof
        channel == rec.channel
        delta == tof - l.tof_sync
        hist_idx == Lifetime_index(tt, delta)
    IN  IF channel = tt.channel_source
        THEN IF delta < 0 /\ checked THEN [l EXCEPT !.st = "panic"]
             ELSE IF hist_idx < tt.n_bins
             THEN [l EXCEPT !.out_hist[hist_idx + 1] = @ + 1,
                            !.incs = Append(@, hist_idx)]
             ELSE l
        ELSE IF channel = tt.channel_sync
        THEN [l EXCEPT !.tof_sync = tof]
        ELSE l

(***************************************************************************)
(* SpecEngines: one run of the compute loop of g2 (g2.rs), the zero        *)
(* finder, g3, synced g3 or lifetime, event by event.  The stream is any   *)
(* sequence of events: each event is on one of a few channels and its time *)
(* is the time of the event before it plus a step, which may be negative.  *)
(***************************************************************************)
MaxEvents == 3

\* the parameter sets of g2, the zero finder and g3, in picoseconds:
\* [correlation_window, resolution] and the stream's time resolution
WindowParams ==
    {[correlation_window |-> 200, resolution |-> 50, time_resolution |-> 1],
     \* resolution_ticks = 0: fewer ticks in the window than bins
     [correlation_window |-> 200, resolution |-> 50, time_resolution |-> 100],
     \* n_bins = 0: a window shorter than one bin
     [correlation_window |-> 30, resolution |-> 50, time_resolution |-> 1]}

PairChannels == {<<1, 2>>, <<1, 1>>}

\* the events that can follow a stream whose last event was at `at`
NextEvents(channels, steps, at) ==
    {TTTRRecord(c, at + d) : c \in channels, d \in {x \in steps : at + x >= 0}}

PairEvents(at) ==
    NextEvents({1, 2}, {0, 60, 150}, at) \cup NextEvents({3}, {60, -60}, at)
        \cup NextEvents({1, 2}, {-60}, at)

MaxG3Events == 4

\* ties are tried on one channel, a step back in time on another; with an
\* empty window (cw_ticks = 0) fewer steps are tried
G3Events(tt, at) ==
    IF tt.correlation_window = 0
    THEN NextEvents({1, 2, 3}, {0}, at) \cup NextEvents({2, 3}, {60}, at)
            \cup NextEvents({1}, {-60}, at)
    ELSE NextEvents({1, 2, 3}, {60, 150}, at) \cup NextEvents({3}, {0}, at)
            \cup NextEvents({4}, {60}, at) \cup NextEvents({1}, {-60}, at)

\* [channel_sync, channel_1, channel_2] of synced g3
SyncChannels == {<<3, 1, 2>>, <<3, 1, 1>>}

\* the sync period and the resolution asked for, in picoseconds: three bins
\* of 33 ps, which leave the last picosecond of the period outside
SyncPeriod == 100
SyncResolution == 30

G3SyncEvents(tt, at) ==
    IF tt.channel_1 = tt.channel_2
    THEN NextEvents({1, 3}, {0, 40, 99}, at)
    ELSE NextEvents({1, 2, 3}, {40, 99}, at) \cup NextEvents({2, 3}, {0}, at)
            \cup NextEvents({4}, {40}, at) \cup NextEvents({1}, {-40}, at)

\* [channel_sync, channel_source] of lifetime
LifetimeChannels == {<<3, 1>>, <<1, 1>>}

LifetimeEvents(at) ==
    NextEvents({1, 3}, {0, 40, 99}, at) \cup NextEvents({2}, {40, -40}, at)
        \cup NextEvents({1, 3}, {-40}, at)

LastTof(e) == IF e.seen = <<>> THEN 0 ELSE e.seen[Len(e.seen)].tof

EngineRun(engine, tt, locals) ==
    [st |-> "loop", engine |-> engine, tt |-> tt, seen |-> <<>>,
     incs |-> <<>>, forms |-> <<>>, wrapped |-> FALSE] @@ locals

G2Run(w, ch) ==
    LET tt == G2_init([channel_1 |-> ch[1], channel_2 |-> ch[2],
                       correlation_window |-> w.correlation_window,
                       resolution |-> w.resolution], w.time_resolution)
    IN  EngineRun("g2", tt,
                  [buff_1 |-> CircularBuffer_new(MAX_BUFFER_SIZE),
                   buff_2 |-> CircularBuffer_new(MAX_BUFFER_SIZE),
                   out_hist |-> [i \in 1..tt.n_bins |-> 0],
                   params |-> w])

ZeroFinderRun(w, ch) ==
    LET tt == G2_init([channel_1 |-> ch[1], channel_2 |-> ch[2],
                       correlation_window |-> w.correlation_window,
                       resolution |-> w.resolution], w.time_resolution)
    IN  EngineRun("zerofinder", tt,
                  [prev_tof_channel_1 |-> 0, prev_tof_channel_2 |-> 0,
                   out_hist |-> [i \in 1..tt.n_bins |-> 0],
                   params |-> w])

Cells(tt) == (0..(tt.n_bins - 1)) \X (0..(tt.n_bins - 1))

G3Run(w) ==
    LET tt == G2_init([channel_1 |-> 1, channel_2 |-> 2,
                       correlation_window |-> w.correlation_window,
                       resolution |-> w.resolution], w.time_resolution)
                @@ [channel_3 |-> 3]
    IN  EngineRun("g3", tt,
                  [click_buffer |-> CCircularBuffer_new(MAX_BUFFER_SIZE),
                   out_hist |-> [c \in Cells(tt) |-> 0],
                   triples |-> <<>>, iterated |-> <<>>,
                   params |-> w])

G3SyncRun(ch) ==
    LET tt == G3Sync_init([channel_sync |-> ch[1], channel_1 |-> ch[2],
                           channel_2 |-> ch[3], resolution |-> SyncResolution],
                          SyncPeriod)
    IN  EngineRun("g3sync", tt,
                  [click_buffer |-> CCircularBuffer_new(MAX_BUFFER_SIZE),
                   out_hist |-> [c \in Cells(tt) |-> 0],
                   visits |-> <<>>, iterated |-> <<>>])

LifetimeRun(ch) ==
    LET tt == Lifetime_init([channel_sync |-> ch[1], channel_source |-> ch[2],
                             resolution |-> SyncResolution], SyncPeriod)
    IN  EngineRun("lifetime", tt,
                  [tof_sync |-> 0, out_hist |-> [i \in 1..tt.n_bins |-> 0]])

\* the builds a run can still be of
Builds(e) == IF e.wrapped THEN {FALSE} ELSE BOOLEAN

\* one turn of the loop: `record` is the loop body of the engine
Turn(e, rec, checked, after, afterChecked) ==
    [after EXCEPT !.seen = Append(e.seen, rec),
                  !.wrapped = e.wrapped \/ (~checked /\ afterChecked.st = "panic")]

G2Step ==
    /\ eng.st = "loop" /\ eng.engine = "g2"
    /\ Len(eng.seen) < MaxEvents
    /\ \E rec \in PairEvents(LastTof(eng)), checked \in Builds(eng) :
          LET r == G2_record(eng.tt, rec, checked, eng)
              side == IF rec.channel = eng.tt.channel_1 THEN "neg" ELSE "pos"
              logged == [r EXCEPT !.forms = @ \o [i \in 1..(Len(r.incs) - Len(eng.incs)) |-> side]]
          IN  eng' = Turn(eng, rec, checked, logged,
                          G2_record(eng.tt, rec, TRUE, eng))
    /\ UNCHANGED <<ringVars, streamVars, decodeVars, dispatchVars, g2Vars>>

ZeroFinderStep ==
    /\ eng.st = "loop" /\ eng.engine = "zerofinder"
    /\ Len(eng.seen) < MaxEvents
    /\ \E rec \in PairEvents(LastTof(eng)), checked \in Builds(eng) :
          eng' = Turn(eng, rec, checked,
                      ZeroFinder_record(eng.tt, rec, checked, eng),
                      ZeroFinder_record(eng.tt, rec, TRUE, eng))
    /\ UNCHANGED <<ringVars, streamVars, decodeVars, dispatchVars, g2Vars>>

G3Step ==
    /\ eng.st = "loop" /\ eng.engine = "g3"
    /\ Len(eng.seen) < MaxG3Events
    /\ \E rec \in G3Events(eng.tt, LastTof(eng)), checked \in Builds(eng) :
          eng' = Turn(eng, rec, checked,
                      G3_record(eng.tt, rec, checked, eng),
                      G3_record(eng.tt, rec, TRUE, eng))
    /\ UNCHANGED <<ringVars, streamVars, decodeVars, dispatchVars, g2Vars>>

G3SyncStep ==
    /\ eng.st = "loop" /\ eng.engine = "g3sync"
    /\ Len(eng.seen) < MaxG3Events
    /\ \E rec \in G3SyncEvents(eng.tt, LastTof(eng)), checked \in Builds(eng) :
          eng' = Turn(eng, rec, checked,
                      G3Sync_record(eng.tt, rec, checked, eng),
                      G3Sync_record(eng.tt, rec, TRUE, eng))
    /\ UNCHANGED <<ringVars, streamVars, decodeVars, dispatchVars, g2Vars>>

LifetimeStep ==
    /\ eng.st = "loop" /\ eng.engine = "lifetime"
    /\ Len(eng.seen) < MaxEvents
    /\ \E rec \in LifetimeEvents(LastTof(eng)), checked \in Builds(eng) :
          eng' = Turn(eng, rec, checked,
                      Lifetime_record(eng.tt, rec, checked, eng),
                      Lifetime_record(eng.tt, rec, TRUE, eng))
    /\ UNCHANGED <<ringVars, streamVars, decodeVars, dispatchVars, g2Vars>>

\* the stream has ended: compute fills in the axis and returns
EngineReturn ==
    /\ eng.st = "loop"
    /\ eng' = [eng EXCEPT !.st = "done"]
    /\ UNCHANGED <<ringVars, streamVars, decodeVars, dispatchVars, g2Vars>>

InitEngines ==
    /\ IdleRing
    /\ IdleStream
    /\ IdleDecode
    /\ IdleDispatch
    /\ IdleG2
    /\ \/ \E w \in WindowParams, ch \in PairChannels : eng = G2Run(w, ch)
       \/ \E w \in WindowParams, ch \in PairChannels : eng = ZeroFinderRun(w, ch)
       \/ \E w \in WindowParams : eng = G3Run(w)
       \/ \E ch \in SyncChannels : eng = G3SyncRun(ch)
       \/ \E ch \in LifetimeChannels : eng = LifetimeRun(ch)

(***************************************************************************)
(* Engine claims.                                                          *)
(***************************************************************************)
\* the g2 core loop over `events` with ring buffers of capacity 1
G2Depth1Hist(tt, events) ==
    G2_loop(tt, events,
            [st |-> "loop",
             buff_1 |-> CircularBuffer_new(1),
             buff_2 |-> CircularBuffer_new(1),
             out_hist |-> [i \in 1..tt.n_bins |-> 0],
             incs |-> <<>>]).out_hist

(* C21: for every event stream and parameter set, the histogram of the     *)
(* zero-delay finder equals the histogram of the g2 core loop over the     *)
(* same events, with the same binning, with ring buffers of capacity 1.    *)
C21_ZeroFinderIsG2Depth1 ==
    (eng.st \in {"loop", "done"} /\ eng.engine = "zerofinder" /\ ~eng.wrapped) =>
        eng.out_hist = G2Depth1Hist(eng.tt, eng.seen)

\* the events of `events` on the channels of `chans`, in stream order
OnChannels(events, chans) == SelectSeq(events, LAMBDA e : e.channel \in chans)

NonDecreasing(events) ==
    \A i \in 1..(Len(events) - 1) : events[i].tof <= events[i + 1].tof

\* the six counted cases: the channels of (e1, e2, e3) as positions in
\* (channel_1, channel_2, channel_3), the deltas taken for (tau1, tau2) and
\* the signs of the two indices
G3Table ==
    <<[perm |-> <<1, 2, 3>>, tau |-> <<"D12", "D13">>, sign |-> <<"neg", "neg">>],
      [perm |-> <<1, 3, 2>>, tau |-> <<"D13", "D12">>, sign |-> <<"neg", "neg">>],
      [perm |-> <<2, 1, 3>>, tau |-> <<"D12", "D23">>, sign |-> <<"pos", "neg">>],
      [perm |-> <<2, 3, 1>>, tau |-> <<"D13", "D23">>, sign |-> <<"pos", "pos">>],
      [perm |-> <<3, 1, 2>>, tau |-> <<"D23", "D12">>, sign |-> <<"neg", "pos">>],
      [perm |-> <<3, 2, 1>>, tau |-> <<"D23", "D13">>, sign |-> <<"pos", "pos">>]>>

DeltaOf(name, e1, e2, e3) ==
    CASE name = "D12" -> e1.tof - e2.tof
      [] name = "D13" -> e1.tof - e3.tof
      [] name = "D23" -> e2.tof - e3.tof

SignedIndex(tt, sign, tau) ==
    IF sign = "pos" THEN tt.central_bin + tau \div tt.resolution
    ELSE tt.central_bin - tau \div tt.resolution - 1

\* the triples (k1, k2, k3, row) of positions of `rel` counted by a row of
\* the table: e3 before e2 before e1, t3 < t2, both delays inside the window
G3Counted(tt, rel) ==
    LET chan == <<tt.channel_1, tt.channel_2, tt.channel_3>>
        n == Len(rel)
    IN  {x \in (1..n) \X (1..n) \X (1..n) \X (1..6) :
            /\ x[3] < x[2] /\ x[2] < x[1]
            /\ rel[x[3]].tof < rel[x[2]].tof
            /\ \A k \in 1..3 : rel[x[k]].channel = chan[G3Table[x[4]].perm[k]]
            /\ \A k \in 1..2 :
                  DeltaOf(G3Table[x[4]].tau[k], rel[x[1]], rel[x[2]], rel[x[3]])
                      < tt.correlation_window}

G3CellOf(tt, rel, x) ==
    <<SignedIndex(tt, G3Table[x[4]].sign[1],
                  DeltaOf(G3Table[x[4]].tau[1], rel[x[1]], rel[x[2]], rel[x[3]])),
      SignedIndex(tt, G3Table[x[4]].sign[2],
                  DeltaOf(G3Table[x[4]].tau[2], rel[x[1]], rel[x[2]], rel[x[3]]))>>

\* the histogram h with each triple of `counted` added once, in its cell
RECURSIVE G3CountInto(_, _, _, _)
G3CountInto(tt, rel, counted, h) ==
    IF counted = {} THEN h
    ELSE LET x == CHOOSE y \in counted : TRUE
         IN  G3CountInto(tt, rel, counted \ {x},
                         [h EXCEPT ![G3CellOf(tt, rel, x)] = @ + 1])

G3BruteHist(tt, events) ==
    LET rel == OnChannels(events, {tt.channel_1, tt.channel_2, tt.channel_3})
    IN  G3CountInto(tt, rel, G3Counted(tt, rel), [c \in Cells(tt) |-> 0])

(* C22: for three distinct configured channels and a stream with           *)
(* non-decreasing tof (fewer than 4096 relevant events), the g3 histogram  *)
(* equals the brute-force count over all triples of relevant events, e3    *)
(* before e2 before e1 in stream order with t3 < t2, whose channels are    *)
(* one of the six permutations of (channel_1, channel_2, channel_3), with  *)
(* the delays, signs and index forms of the table and both delays below    *)
(* cw_ticks: the window breaks never skip such a triple.                   *)
C22_G3IsBruteForce ==
    (/\ eng.st \in {"loop", "done"} /\ eng.engine = "g3"
     /\ Cardinality({eng.tt.channel_1, eng.tt.channel_2, eng.tt.channel_3}) = 3
     /\ NonDecreasing(OnChannels(eng.seen, {eng.tt.channel_1, eng.tt.channel_2,
                                           eng.tt.channel_3}))) =>
        eng.out_hist = G3BruteHist(eng.tt, eng.seen)

\* four events on the three channels, the first outside the window of the
\* last: the inner loop has broken on it after counting one triple
C22_Witness ==
    /\ eng.st = "done" /\ eng.engine = "g3"
    /\ eng.tt.correlation_window = 200
    /\ eng.seen = <<TTTRRecord(3, 0), TTTRRecord(3, 150), TTTRRecord(2, 210),
                    TTTRRecord(1, 270)>>
    /\ eng.incs = <<<<2, 1>>>>

\* the cell a delay pair falls in, and whether it is inside the histogram
SyncCell(tt, tau1, tau2) ==
    <<(tau1 % tt.sync_period) \div tt.resolution,
      (tau2 % tt.sync_period) \div tt.resolution>>

InHistogram(tt, cell) == cell[1] < tt.n_bins /\ cell[2] < tt.n_bins

ChannelsOf(v) == <<v.c1[2], v.c2[2], v.c3[2]>>
D13(v) == v.c1[1] - v.c3[1]
D23(v) == v.c2[1] - v.c3[1]

\* cell is incremented by the visit v exactly when it is inside the histogram
IncrementsWhenInside(tt, v, cell) ==
    IF InHistogram(tt, cell) THEN v.inc = <<cell>> ELSE v.inc = <<>>

\* the histogram is the count of the cells the visits incremented
RECURSIVE CountVisits(_, _)
CountVisits(visits, h) ==
    IF visits = <<>> THEN h
    ELSE CountVisits(Tail(visits),
                     IF Head(visits).inc = <<>> THEN h
                     ELSE [h EXCEPT ![Head(visits).inc[1]] = @ + 1])

SyncRunning == eng.st \in {"loop", "done"} /\ eng.engine = "g3sync"

(* C23 as stated: in synced g3 every visited triple (e1 current, e2 and e3 *)
(* buffered, t3 < t2) with channels (channel_1, channel_2, channel_sync)   *)
(* increments cell ((D13 mod P)/r, (D23 mod P)/r), every visited triple    *)
(* with channels (channel_2, channel_1, channel_sync) increments cell      *)
(* ((D23 mod P)/r, (D13 mod P)/r), in both cases exactly when both indices *)
(* are < n_bins; no other channel combination changes the histogram.       *)
C23_SyncCellsAsStated ==
    SyncRunning =>
        /\ \A i \in 1..Len(eng.visits) :
              LET v == eng.visits[i]
                  tt == eng.tt
                  first == ChannelsOf(v) = <<tt.channel_1, tt.channel_2, tt.channel_sync>>
                  second == ChannelsOf(v) = <<tt.channel_2, tt.channel_1, tt.channel_sync>>
                  cell1 == SyncCell(tt, D13(v), D23(v))
                  cell2 == SyncCell(tt, D23(v), D13(v))
              IN  /\ v.c3[1] < v.c2[1]
                  /\ first => (InHistogram(tt, cell1) <=>
                                  \E k \in 1..Len(v.inc) : v.inc[k] = cell1)
                  /\ second => (InHistogram(tt, cell2) <=>
                                  \E k \in 1..Len(v.inc) : v.inc[k] = cell2)
                  /\ (~first /\ ~second) => v.inc = <<>>
        /\ eng.out_hist = CountVisits(eng.visits, [c \in Cells(eng.tt) |-> 0])

(* C23, amended: every visited triple with channels (channel_1, channel_2, *)
(* channel_sync) increments cell ((D13 mod P)/r, (D23 mod P)/r) exactly    *)
(* when both indices are < n_bins; every visited triple with channels      *)
(* (channel_2, channel_1, channel_sync) whose current event is not on      *)
(* channel_1 (so none when channel_1 = channel_2) increments cell          *)
(* ((D23 mod P)/r, (D13 mod P)/r) exactly when both indices are < n_bins;  *)
(* no visited triple increments any other cell, and no other channel       *)
(* combination changes the histogram.                                      *)
C23_SyncCells ==
    SyncRunning =>
        /\ \A i \in 1..Len(eng.visits) :
              LET v == eng.visits[i]
                  tt == eng.tt
                  first == ChannelsOf(v) = <<tt.channel_1, tt.channel_2, tt.channel_sync>>
                  second == /\ ChannelsOf(v) = <<tt.channel_2, tt.channel_1, tt.channel_sync>>
                            /\ v.c1[2] # tt.channel_1
              IN  /\ v.c3[1] < v.c2[1]
                  /\ first => IncrementsWhenInside(tt, v, SyncCell(tt, D13(v), D23(v)))
                  /\ second => IncrementsWhenInside(tt, v, SyncCell(tt, D23(v), D13(v)))
                  /\ (~first /\ ~second) => v.inc = <<>>
        /\ eng.out_hist = CountVisits(eng.visits, [c \in Cells(eng.tt) |-> 0])

\* sync at 0, channel_1 at 40, channel_2 at 80: the triple of the third
\* event is of the second case and is counted in cell (40/33, 80/33)
C23_Witness ==
    /\ eng.st = "done" /\ eng.engine = "g3sync"
    /\ eng.tt.channel_1 # eng.tt.channel_2
    /\ eng.seen = <<TTTRRecord(3, 0), TTTRRecord(1, 40), TTTRRecord(2, 80)>>
    /\ eng.incs = <<<<1, 2>>>>
    /\ Len(eng.visits) = 1
    /\ ChannelsOf(eng.visits[1]) = <<2, 1, 3>>
    /\ eng.visits[1].inc = <<<<1, 2>>>>

\* the two rules of the lifetime engine over `events`, from the state
\* l = [tof_sync, hist, idxs]: `both` applies the sync rule and then the
\* source rule to every event, each on its own condition; otherwise the
\* sync rule is applied only to an event that is not on channel_source
RECURSIVE LifetimeRules(_, _, _, _)
LifetimeRules(tt, both, events, l) ==
    IF events = <<>> THEN l
    ELSE LET e == Head(events)
             isSource == e.channel = tt.channel_source
             isSync == e.channel = tt.channel_sync /\ (both \/ ~isSource)
             l1 == IF isSync THEN [l EXCEPT !.tof_sync = e.tof] ELSE l
             delta == e.tof - l1.tof_sync
             idx == (delta % tt.sync_period) \div tt.resolution
             l2 == IF isSource /\ idx < tt.n_bins
                   THEN [l1 EXCEPT !.hist[idx + 1] = @ + 1, !.idxs = Append(@, idx)]
                   ELSE l1
         IN  LifetimeRules(tt, both, Tail(events), l2)

LifetimeStart(tt) ==
    [tof_sync |-> 0, hist |-> [i \in 1..tt.n_bins |-> 0], idxs |-> <<>>]

\* a lifetime run in which no subtraction has had a negative result
LifetimeRunning ==
    eng.st \in {"loop", "done"} /\ eng.engine = "lifetime" /\ ~eng.wrapped

G2Pairs(tt, rel) ==
    {p \in (1..Len(rel)) \X (1..Len(rel)) :
        /\ p[1] < p[2]
        /\ {rel[p[1]].channel, rel[p[2]].channel} = {tt.channel_1, tt.channel_2}
        /\ rel[p[2]].tof - rel[p[1]].tof < tt.correlation_window}

\* the bin of the pair: the negative form when the later event is on
\* channel_1, the positive form when it is on channel_2
G2PairIndex(tt, rel, p) ==
    LET D == rel[p[2]].tof - rel[p[1]].tof
    IN  IF rel[p[2]].channel = tt.channel_1
        THEN tt.central_bin - D \div tt.resolution - 1
        ELSE tt.central_bin + D \div tt.resolution

G2BruteHist(tt, events) ==
    LET rel == OnChannels(events, {tt.channel_1, tt.channel_2})
        pairs == G2Pairs(tt, rel)
    IN  [b \in 1..tt.n_bins |->
            Cardinality({p \in pairs : G2PairIndex(tt, rel, p) + 1 = b})]

(* C28: for channel_1 # channel_2 and a stream whose tof is non-decreasing *)
(* (fewer than 4096 events per channel), the g2 histogram equals the       *)
(* brute-force pair count: every pair (earlier event e' on one channel,    *)
(* later event e on the other) with D = t - t' < cw_ticks is one           *)
(* increment, at central_bin - D/resolution_ticks - 1 when e is on         *)
(* channel_1 and at central_bin + D/resolution_ticks when e is on          *)
(* channel_2, and there is no other increment: stopping the newest-first   *)
(* iteration at the first D >= cw_ticks skips no pair inside the window.   *)
C28_G2IsBruteForce ==
    (/\ eng.st \in {"loop", "done"} /\ eng.engine = "g2"
     /\ eng.tt.channel_1 # eng.tt.channel_2
     /\ NonDecreasing(OnChannels(eng.seen, {eng.tt.channel_1, eng.tt.channel_2}))) =>
        /\ eng.out_hist = G2BruteHist(eng.tt, eng.seen)
        /\ Len(eng.incs) =
              Cardinality(G2Pairs(eng.tt, OnChannels(eng.seen, {eng.tt.channel_1,
                                                                eng.tt.channel_2})))

\* two events on channel_1 and one on channel_2, 150 ticks after the second
\* and 210 after the first: one increment, then the iteration has stopped
C28_Witness ==
    /\ eng.st = "done" /\ eng.engine = "g2"
    /\ eng.tt.correlation_window = 200
    /\ eng.seen = <<TTTRRecord(1, 0), TTTRRecord(1, 60), TTTRRecord(2, 210)>>
    /\ eng.incs = <<7>>
    /\ eng.out_hist = <<0, 0, 0, 0, 0, 0, 0, 1>>

\* idx is an index of the form `form` into a histogram side of tt
InForm(tt, form, idx) ==
    IF form = "neg" THEN 0 <= idx /\ idx < tt.central_bin
    ELSE tt.central_bin <= idx /\ idx < tt.n_bins

(* C29: for every parameter set (n_side = floor(cw / res) >= 0, any        *)
(* resolution_ticks >= 0) and every event stream, the g2, zero-finder and  *)
(* g3 histograms have side length 2 * n_side with central_bin = n_side,    *)
(* and every index computed lies in [0, 2 * n_side): an index of the       *)
(* negative-delay form in [0, central_bin), one of the positive-delay form *)
(* in [central_bin, 2 * n_side); there is no division by zero and no       *)
(* access out of range.                                                    *)
C29_IndicesInRange ==
    (eng.st # "none" /\ eng.engine \in {"g2", "zerofinder", "g3"}) =>
        LET tt == eng.tt
            n_side == eng.params.correlation_window \div eng.params.resolution
        IN  /\ tt.central_bin = n_side
            /\ tt.n_bins = 2 * n_side
            /\ DOMAIN eng.out_hist = IF eng.engine = "g3" THEN Cells(tt) ELSE 1..tt.n_bins
            /\ eng.st # "div0"
            /\ Len(eng.forms) = Len(eng.incs)
            /\ \A k \in 1..Len(eng.incs) :
                  IF eng.engine = "g3"
                  THEN /\ InForm(tt, eng.forms[k][1], eng.incs[k][1])
                       /\ InForm(tt, eng.forms[k][2], eng.incs[k][2])
                  ELSE InForm(tt, eng.forms[k], eng.incs[k])

\* a g3 run that has counted a triple with one index of each form
C29_Witness ==
    /\ eng.st = "done" /\ eng.engine = "g3"
    /\ \E k \in 1..Len(eng.incs) :
          /\ eng.forms[k] = <<"pos", "neg">>
          /\ eng.incs[k][1] >= eng.tt.central_bin
          /\ eng.incs[k][2] < eng.tt.central_bin

\* the channels an engine is configured with
EngineChannels(e) ==
    CASE e.engine \in {"g2", "zerofinder"} -> {e.tt.channel_1, e.tt.channel_2}
      [] e.engine = "g3" -> {e.tt.channel_1, e.tt.channel_2, e.tt.channel_3}
      [] e.engine = "g3sync" -> {e.tt.channel_sync, e.tt.channel_1, e.tt.channel_2}
      [] e.engine = "lifetime" -> {e.tt.channel_sync, e.tt.channel_source}

(* C30: for every event stream whose tof values on the configured channels *)
(* are non-decreasing in stream order, no u64 subtraction between tof      *)
(* values in g2 (both variants), the zero finder, g3, synced g3 or         *)
(* lifetime has a negative mathematical result: no build panics on one and *)
(* no build wraps.                                                         *)
C30_NoNegativeSubtraction ==
    (/\ eng.st # "none"
     /\ eng.engine \in {"g2", "zerofinder", "g3", "g3sync", "lifetime"}
     /\ NonDecreasing(OnChannels(eng.seen, EngineChannels(eng)))) =>
        eng.st # "panic" /\ ~eng.wrapped

\* a lifetime run over a sync and two later source events, an event of
\* another channel with an earlier tof in between
C30_Witness ==
    /\ eng.st = "done" /\ eng.engine = "lifetime" /\ ~eng.wrapped
    /\ eng.seen = <<TTTRRecord(3, 40), TTTRRecord(2, 0), TTTRRecord(1, 40)>>
    /\ eng.incs = <<0>>

(* C31 as stated: every triple of events that increments the g3 histogram  *)
(* satisfies the strict time ordering t3 < t2 < t1, where t1 is the        *)
(* current event, t2 the outer-loop event and t3 the inner-loop event.     *)
C31_StrictOrderAsStated ==
    (eng.st # "none" /\ eng.engine = "g3") =>
        \A k \in 1..Len(eng.triples) :
            LET t == eng.triples[k]
            IN  t[3][1] < t[2][1] /\ t[2][1] < t[1][1]

(* C31, amended: every triple of events that increments the g3 histogram   *)
(* satisfies t3 < t2 <= t1: the inner-loop event is strictly older than    *)
(* the outer-loop event, which is not later than the current event and may *)
(* carry the same time tag.                                                *)
C31_TripleOrder ==
    (eng.st # "none" /\ eng.engine = "g3") =>
        /\ Len(eng.triples) = Len(eng.incs)
        /\ \A k \in 1..Len(eng.triples) :
              LET t == eng.triples[k]
              IN  t[3][1] < t[2][1] /\ t[2][1] <= t[1][1]

\* a counted triple whose current and outer-loop events carry the same time
C31_Witness ==
    /\ eng.st = "done" /\ eng.engine = "g3"
    /\ eng.seen = <<TTTRRecord(2, 60), TTTRRecord(1, 120), TTTRRecord(3, 120)>>
    /\ eng.triples = << <<<<120, 3, 3>>, <<120, 1>>, <<60, 2>>>> >>

\* the events of `events` as the (tof, channel) pairs of the buffer
AsClicks(events) == [i \in 1..Len(events) |-> <<events[i].tof, events[i].channel>>]

Front(q) == SubSeq(q, 1, Len(q) - 1)

\* the (tof, channel) pairs of the first n events of the stream
ClicksBefore(events, n) == {<<events[i].tof, events[i].channel>> : i \in 1..(n - 1)}

\* the triples counted so far, as <<click_1, click_2, click_3>> with the
\* stream position of click_1 as its third component
CountedTriples(e) ==
    IF e.engine = "g3" THEN e.triples
    ELSE LET counted == SelectSeq(e.visits, LAMBDA v : v.inc # <<>>)
         IN  [k \in 1..Len(counted) |-> <<counted[k].c1, counted[k].c2, counted[k].c3>>]

(* C32: in g3 and synced g3 the current event is pushed into the coloured  *)
(* ring buffer only after both nested loops for it have finished: the      *)
(* loops iterate the configured-channel events before the current one,     *)
(* newest first, so no counted triple has the current event in its second  *)
(* or third position; and the buffer only ever holds events whose channel  *)
(* is one of the three configured channels: an event on another channel is *)
(* neither correlated nor pushed.                                          *)
C32_PushAfterLoops ==
    (eng.st \in {"loop", "done"} /\ eng.engine \in {"g3", "g3sync"}) =>
        LET rel == OnChannels(eng.seen, EngineChannels(eng))
            triples == CountedTriples(eng)
        IN  /\ CCircularBuffer_yield(eng.click_buffer, CCircularBuffer_iter(eng.click_buffer))
                  = Rev(AsClicks(rel))
            /\ eng.iterated = IF rel = <<>> THEN <<>> ELSE Rev(AsClicks(Front(rel)))
            /\ \A k \in 1..Len(triples) :
                  LET t == triples[k]
                      before == ClicksBefore(eng.seen, t[1][3])
                  IN  /\ t[1][2] \in EngineChannels(eng)
                      /\ eng.seen[t[1][3]] = TTTRRecord(t[1][2], t[1][1])
                      /\ <<t[2][1], t[2][2]>> \in before /\ t[2][2] \in EngineChannels(eng)
                      /\ <<t[3][1], t[3][2]>> \in before /\ t[3][2] \in EngineChannels(eng)

\* an event on a fourth channel between three counted ones: the buffer
\* holds the three, and the last turn iterated the two before its event
C32_Witness ==
    /\ eng.st = "done" /\ eng.engine = "g3"
    /\ eng.seen = <<TTTRRecord(3, 60), TTTRRecord(4, 120), TTTRRecord(2, 180),
                    TTTRRecord(1, 240)>>
    /\ eng.triples = << <<<<240, 1, 4>>, <<180, 2>>, <<60, 3>>>> >>
    /\ eng.iterated = << <<180, 2>>, <<60, 3>> >>
    /\ CCircularBuffer_len(eng.click_buffer) = 3

\* the buffer the loops of the n-th event of the stream iterate
BufferAt(e, n) == Rev(AsClicks(OnChannels(SubSeq(e.seen, 1, n - 1), EngineChannels(e))))

SamePair(v, w) == v.c1[3] = w.c1[3] /\ v.c2[3] = w.c2[3]

\* would the buffered click x, as e3 of the pair of the visit v, have both
\* indices in range?
SyncInRange(tt, v, x) ==
    InHistogram(tt, SyncCell(tt, v.c1[1] - x[1], v.c2[1] - x[1]))

(* C33: in synced g3 at most one cell is incremented for each pair         *)
(* (current event e1, buffered event e2): a visit that increments is the   *)
(* last visit of its pair, its e3 is on channel_sync and strictly older    *)
(* than e2, and no buffered channel_sync event that the iteration reaches  *)
(* before it (a newer one) is strictly older than e2 with both indices in  *)
(* range; older sync events are never counted for the pair.                *)
C33_OneCellPerPair ==
    SyncRunning =>
        \A k \in 1..Len(eng.visits) :
            LET v == eng.visits[k]
                buffer == BufferAt(eng, v.c1[3])
            IN  /\ Len(v.inc) <= 1
                /\ buffer[v.c2[3]] = <<v.c2[1], v.c2[2]>>
                /\ buffer[v.c3[3]] = <<v.c3[1], v.c3[2]>>
                /\ \A i \in 1..(k - 1) :
                      SamePair(eng.visits[i], v) =>
                          /\ eng.visits[i].inc = <<>>
                          /\ eng.visits[i].c3[3] < v.c3[3]
                /\ v.inc # <<>> =>
                      /\ v.c3[2] = eng.tt.channel_sync
                      /\ v.c3[1] < v.c2[1]
                      /\ \A j \in 1..(v.c3[3] - 1) :
                            ~(/\ buffer[j][2] = eng.tt.channel_sync
                              /\ buffer[j][1] < v.c2[1]
                              /\ SyncInRange(eng.tt, v, buffer[j]))

\* two sync events, then channel_2 and channel_1: the pair of the last two
\* is counted with the newer sync, and the older one, whose indices are in
\* range as well, is not visited for it
C33_Witness ==
    /\ eng.st = "done" /\ eng.engine = "g3sync"
    /\ eng.seen = <<TTTRRecord(3, 0), TTTRRecord(3, 40), TTTRRecord(2, 80),
                    TTTRRecord(1, 120)>>
    /\ eng.incs = << <<2, 1>> >>
    /\ \E k \in 1..Len(eng.visits) :
          /\ eng.visits[k].inc = << <<2, 1>> >>
          /\ eng.visits[k].c3 = <<40, 3, 2>>
          /\ SyncInRange(eng.tt, eng.visits[k], <<0, 3>>)
    /\ \A k \in 1..Len(eng.visits) :
          (eng.visits[k].c1[3] = 4 /\ eng.visits[k].c2[3] = 1) => eng.visits[k].c3[3] # 3

\* the g2 loop over the events of the run with channel_1 and channel_2
\* exchanged
SwappedHist(e) ==
    G2_loop([e.tt EXCEPT !.channel_1 = e.tt.channel_2, !.channel_2 = e.tt.channel_1],
            e.seen,
            [st |-> "loop",
             buff_1 |-> CircularBuffer_new(MAX_BUFFER_SIZE),
             buff_2 |-> CircularBuffer_new(MAX_BUFFER_SIZE),
             out_hist |-> [i \in 1..e.tt.n_bins |-> 0],
             incs |-> <<>>]).out_hist

(* C38: swapping channel_1 and channel_2 mirrors the g2 histogram exactly: *)
(* for every event stream and every k in [0, central_bin),                 *)
(* hist_swapped[central_bin + k] = hist[central_bin - 1 - k] and           *)
(* hist_swapped[central_bin - 1 - k] = hist[central_bin + k].              *)
C38_SwapMirrors ==
    (eng.st \in {"loop", "done"} /\ eng.engine = "g2") =>
        LET hist == eng.out_hist
            hist_swapped == SwappedHist(eng)
            central_bin == eng.tt.central_bin
        IN  /\ Len(hist_swapped) = Len(hist)
            /\ \A k \in 0..(central_bin - 1) :
                  /\ hist_swapped[central_bin + k + 1] = hist[central_bin - 1 - k + 1]
                  /\ hist_swapped[central_bin - 1 - k + 1] = hist[central_bin + k + 1]

\* an event on channel_1 and two on channel_2, 60 and 120 ticks later: bins
\* central_bin + 1 and central_bin + 2, and their mirror images when swapped
C38_Witness ==
    /\ eng.st = "done" /\ eng.engine = "g2"
    /\ eng.tt.channel_1 = 1 /\ eng.tt.channel_2 = 2
    /\ eng.seen = <<TTTRRecord(1, 0), TTTRRecord(2, 60), TTTRRecord(2, 120)>>
    /\ eng.out_hist = <<0, 0, 0, 0, 0, 1, 1, 0>>
    /\ SwappedHist(eng) = <<0, 1, 1, 0, 0, 0, 0, 0>>

NextEngines ==
    \/ G2Step \/ ZeroFinderStep \/ G3Step \/ G3SyncStep \/ LifetimeStep
    \/ EngineReturn

SpecEngines == InitEngines /\ [][NextEngines]_vars

(***************************************************************************)
(* SpecTimeTrace: timetrace() on a T2 file.  The stream is constructed     *)
(* over the whole file, TimeTrace::compute takes its events one by one     *)
(* with next() and returns when the stream ends.  eng holds the locals of  *)
(* compute; counted logs, per event, what the event added to counter.      *)
(***************************************************************************)
MaxTraceLen == 3

\* TimeTrace::compute, before the loop (resolution and time_resolution in
\* the same unit, so that the f64 quotient cast to u64 is \div)
TimeTrace_init(params, time_resolution) ==
    [blips_per_bin |-> params.resolution \div time_resolution,
     channel |-> params.channel]

\* mutant: without a filter every event is counted
TimeTrace_counts_anyChannel(tt, rec) ==
    IF tt.channel.some THEN rec.channel = tt.channel.v ELSE TRUE

\* the condition of `counter += if ... { 1 } else { 0 }`
TimeTrace_counts(tt, rec) ==
    IF tt.channel.some THEN rec.channel = tt.channel.v ELSE rec.channel >= 0

\* mutant: the record number is counted from 1
TimeTrace_record_oneBased(tt, idx, rec, l) ==
    LET added == BoolInt(TimeTrace_counts(tt, rec))
        counter == l.counter + added
        l1 == [l EXCEPT !.counted = Append(@, added)]
    IN  IF rec.tof > l.end_of_bin
        THEN [l1 EXCEPT !.trace = Append(@, counter),
                        !.recnum_trace = Append(@, idx + 1),
                        !.counter = 0,
                        !.end_of_bin = @ + tt.blips_per_bin]
        ELSE [l1 EXCEPT !.counter = counter]

\* TimeTrace::compute, the body of its loop for the event rec of index idx
TimeTrace_record(tt, idx, rec, l) ==
    LET added == BoolInt(TimeTrace_counts(tt, rec))
        counter == l.counter + added
        l1 == [l EXCEPT !.counted = Append(@, added)]
    IN  IF rec.tof > l.end_of_bin
        THEN [l1 EXCEPT !.trace = Append(@, counter),
                        !.recnum_trace = Append(@, idx),
                        !.counter = 0,
                        !.end_of_bin = @ + tt.blips_per_bin]
        ELSE [l1 EXCEPT !.counter = counter]

\* photons on two channels, an overflow, a marker and, for the HydraHarp
\* formats, a sync record
TraceRecords(fmt) ==
    CASE fmt = "PHT2"     -> {PHWord(0, 1), PHWord(0, 2), PHWord(0, 5), PHWord(0, 15),
                              PHWord(0, 28), PHWord(15, 0), PHWord(15, 3)}
      [] fmt = "HHT2_HH1" -> {HHWord(0, 0, 5), HHWord(0, 1, 15), HHWord(1, 63, 0),
                              HHWord(1, 0, 7), HHWord(1, 2, 20)}
      [] fmt = "HHT2_HH2" -> {HHWord(0, 0, 5), HHWord(0, 1, 15), HHWord(1, 63, 1),
                              HHWord(1, 0, 7), HHWord(1, 2, 20)}

\* TimeTraceParams, resolution in units of the file's time resolution
TraceParams ==
    [resolution : {10, 1000000}, channel : {None, Some(0), Some(1), Some(-1)}]

TimeTraceRun(params) ==
    LET tt == TimeTrace_init(params, 1)
    IN  EngineRun("timetrace", tt,
                  [trace |-> <<>>, recnum_trace |-> <<>>, counter |-> 0,
                   end_of_bin |-> tt.blips_per_bin, idx |-> 0, counted |-> <<>>])

InitTimeTrace ==
    /\ IdleRing
    /\ IdleDecode
    /\ IdleDispatch
    /\ IdleG2
    /\ \E fmt \in T2Formats :
          /\ file \in SeqsUpTo(TraceRecords(fmt), MaxTraceLen)
          /\ stream = T2Stream_new(fmt, Len(file), None, None)
    /\ args = [start_record |-> None, stop_record |-> None]
    /\ ret = None
    /\ emitted = <<>>
    /\ ended = FALSE
    /\ \E params \in TraceParams : eng = TimeTraceRun(params)

\* one turn of `for (idx, rec) in self.click_stream.into_iter().enumerate()`
TimeTraceStep ==
    /\ eng.st = "loop" /\ eng.engine = "timetrace"
    /\ LET r == T2Stream_next(stream, file)
       IN  /\ r.ret.some
           /\ stream' = r.self
           /\ eng' = [TimeTrace_record(eng.tt, eng.idx, r.ret.v, eng)
                         EXCEPT !.seen = Append(eng.seen, r.ret.v), !.idx = eng.idx + 1]
    /\ UNCHANGED <<ringVars, decodeVars, dispatchVars, g2Vars, file, args, ret, emitted, ended>>

\* next() returns None: the loop ends and compute returns the two vectors
TimeTraceReturn ==
    /\ eng.st = "loop" /\ eng.engine = "timetrace"
    /\ LET r == T2Stream_next(stream, file)
       IN  /\ ~r.ret.some
           /\ stream' = r.self
           /\ eng' = [eng EXCEPT !.st = "done"]
    /\ UNCHANGED <<ringVars, decodeVars, dispatchVars, g2Vars, file, args, ret, emitted, ended>>

\* the number of k in lo..hi - 1 (0-based) whose event was counted
RECURSIVE CountedIn(_, _, _)
CountedIn(counted, lo, hi) ==
    IF lo >= hi THEN 0 ELSE counted[lo + 1] + CountedIn(counted, lo + 1, hi)

TimeTraceOf(fmt, records, resolution, channel) ==
    /\ eng.st = "done"
    /\ stream.fmt = fmt
    /\ file = records
    /\ eng.tt = [blips_per_bin |-> resolution, channel |-> channel]

(* C25: the event whose tof exceeds end_of_bin closes the current bin      *)
(* without being counted into the bin it closes: an entry of the trace is  *)
(* the number of counted events from the event that closed the bin before  *)
(* (the first event, for the first bin) up to, and without, the event that *)
(* closed it.  The stream (ch 0, t 5), (ch 0, t 15), (ch 0, t 28) with     *)
(* ticks_per_bin = 10 and no filter yields intensity = [1, 1] and          *)
(* recnum_trace = [1, 2].                                                  *)
C25_ClosingEventNotCounted ==
    (eng.st \in {"loop", "done"} /\ eng.engine = "timetrace") =>
        /\ \A k \in 1..Len(eng.trace) :
              eng.trace[k] = CountedIn(eng.counted,
                                       IF k = 1 THEN 0 ELSE eng.recnum_trace[k - 1],
                                       eng.recnum_trace[k])
        /\ TimeTraceOf("PHT2", <<PHWord(0, 5), PHWord(0, 15), PHWord(0, 28)>>, 10, None)
              => eng.trace = <<1, 1>> /\ eng.recnum_trace = <<1, 2>>

(* C26: when two consecutive counted events are more than one bin width    *)
(* apart, a zero-count bin is emitted for every empty interval between     *)
(* them, so that the k-th entry refers to the k-th interval of             *)
(* ticks_per_bin ticks: after an event has closed a bin, the bin that is   *)
(* open is the one the event lies in or a later one.  For the PHT2 records *)
(* 0x00000001, 0xF0000000, 0x00000002 and ticks_per_bin = 1000000 the      *)
(* trace is 1, then zeros, then 1.                                         *)
C26_EmptyBinsEmitted ==
    (eng.st \in {"loop", "done"} /\ eng.engine = "timetrace") =>
        /\ \A k \in 1..Len(eng.trace) :
              eng.seen[eng.recnum_trace[k] + 1].tof <= (k + 1) * eng.tt.blips_per_bin
        /\ TimeTraceOf("PHT2", <<PHWord(0, 1), PHWord(15, 0), PHWord(0, 2)>>, 1000000, None)
              => /\ Len(eng.trace) >= 2
                 /\ eng.trace[1] = 1
                 /\ eng.trace[Len(eng.trace)] = 1
                 /\ \A k \in 2..Len(eng.trace) - 1 : eng.trace[k] = 0

\* is `record` a marker record of the format?
IsMarker(fmt, record) ==
    CASE fmt = "PHT2" -> Bits(record, 31, 28) = 15 /\ Bits(record, 3, 0) # 0
      [] OTHER        -> Bits(record, 31, 31) = 1 /\ Bits(record, 30, 25) \in 1..15

(* C27: an event increments the counter exactly when a channel filter is   *)
(* set and the event's channel equals it, or no filter is set and the      *)
(* event's channel is >= 0.  With no filter, the events the T2 decoders    *)
(* emit for overflow and marker records have negative channels and are     *)
(* never counted.                                                          *)
C27_CountedEvents ==
    (eng.st \in {"loop", "done"} /\ eng.engine = "timetrace") =>
        \A k \in 1..Len(eng.seen) :
            /\ eng.counted[k] = 1 <=>
                  \/ eng.tt.channel.some /\ eng.seen[k].channel = eng.tt.channel.v
                  \/ ~eng.tt.channel.some /\ eng.seen[k].channel >= 0
            /\ eng.counted[k] \in {0, 1}
            /\ (IsOverflow(stream.fmt, file[k]) \/ IsMarker(stream.fmt, file[k]))
                  => /\ eng.seen[k].channel < 0
                     /\ ~eng.tt.channel.some => eng.counted[k] = 0

\* no filter: a photon, an overflow and a marker; only the photon is counted
C27_Witness ==
    /\ eng.st = "done" /\ eng.engine = "timetrace"
    /\ ~eng.tt.channel.some
    /\ \E k \in 1..Len(file) : IsOverflow(stream.fmt, file[k])
    /\ \E k \in 1..Len(file) : IsMarker(stream.fmt, file[k])
    /\ \E k \in 1..Len(file) : eng.counted[k] = 1
    /\ Len(eng.seen) = Len(file)

RECURSIVE SumSeq(_)
SumSeq(q) == IF q = <<>> THEN 0 ELSE Head(q) + SumSeq(Tail(q))

(* C35: for every event stream, intensity and recnum_trace have the same   *)
(* length, at most the number of events; recnum_trace is strictly          *)
(* increasing and its k-th entry is the 0-based stream position of the     *)
(* event that closed bin k (an event later than the end of that bin); at   *)
(* most one bin is emitted per event; when the stream ends no trailing bin *)
(* is emitted: the events counted since the last bin stay in the counter,  *)
(* so the sum of intensity is at most the number of counted events.        *)
C35_TraceShape ==
    (eng.st \in {"loop", "done"} /\ eng.engine = "timetrace") =>
        /\ Len(eng.trace) = Len(eng.recnum_trace)
        /\ Len(eng.trace) <= Len(eng.seen)
        /\ \A k \in 1..Len(eng.recnum_trace) :
              /\ 0 <= eng.recnum_trace[k] /\ eng.recnum_trace[k] < Len(eng.seen)
              /\ k > 1 => eng.recnum_trace[k - 1] < eng.recnum_trace[k]
              /\ eng.seen[eng.recnum_trace[k] + 1].tof > k * eng.tt.blips_per_bin
        /\ SumSeq(eng.trace) + eng.counter = SumSeq(eng.counted)
        /\ SumSeq(eng.trace) <= SumSeq(eng.counted)
        /\ eng.st = "done" => Len(eng.seen) = Len(file)

\* the first event closes a bin, the two after it are counted and stay in
\* the counter when the stream ends
C35_Witness ==
    /\ TimeTraceOf("PHT2", <<PHWord(0, 15), PHWord(0, 1), PHWord(0, 2)>>, 10, None)
    /\ eng.trace = <<1>>
    /\ eng.recnum_trace = <<0>>
    /\ eng.counter = 2

NextTimeTrace == TimeTraceStep \/ TimeTraceReturn

SpecTimeTrace == InitTimeTrace /\ [][NextTimeTrace]_vars


(***************************************************************************)
(* SpecOrder: a stream over a whole file of raw records, well formed or    *)
(* not, and next() called again and again.                                 *)
(***************************************************************************)
\* per format: two photons with a decreasing time tag, an overflow, and
\* records that break one of the other conditions of a well-formed file
OrderRecords(fmt) ==
    CASE fmt = "PHT2"     -> {PHWord(1, 5), PHWord(2, 3), PHWord(15, 0), PHWord(15, 3),
                              PHWord(1, 268435455)}
      [] fmt = "HHT2_HH1" -> {HHWord(0, 0, 5), HHWord(0, 1, 3), HHWord(1, 63, 0),
                              HHWord(1, 2, 4), HHWord(0, 0, 33554431)}
      [] fmt = "HHT2_HH2" -> {HHWord(0, 0, 5), HHWord(0, 1, 3), HHWord(1, 63, 1),
                              HHWord(1, 63, 0), HHWord(0, 63, 1)}
      [] fmt = "HHT3_HH2" -> {T3Word(0, 0, 100, 5), T3Word(0, 1, 0, 5), T3Word(0, 1, 0, 7),
                              T3Word(1, 63, 0, 1), T3Word(0, 0, 32767, 7)}

InitOrder ==
    /\ IdleRing
    /\ IdleDecode
    /\ IdleDispatch
    /\ IdleG2
    /\ IdleEng
    /\ \E fmt \in Formats :
          /\ file \in SeqsUpTo(OrderRecords(fmt), MaxFileLen)
          /\ stream = IF fmt \in T2Formats
                      THEN T2Stream_new(fmt, Len(file), None, None)
                      ELSE HHT3_HH2Stream_new(Len(file), None, None, 12500, 4)
    /\ args = [start_record |-> None, stop_record |-> None]
    /\ ret = None
    /\ emitted = <<>>
    /\ ended = FALSE

\* the raw time tag of a T2 record, the nsync and dtime fields of a T3 record
RawTag(fmt, record) ==
    IF fmt = "PHT2" THEN Bits(record, 27, 0) ELSE Bits(record, 24, 0)

RawNsync(record) == Bits(record, 9, 0)
RawDtime(record) == Bits(record, 24, 10)

T2WRAPAROUND(fmt) ==
    CASE fmt = "PHT2"     -> PHT2_T2WRAPAROUND
      [] fmt = "HHT2_HH1" -> HHT2_HH1_T2WRAPAROUND
      [] fmt = "HHT2_HH2" -> HHT2_HH2_T2WRAPAROUND

\* i < j are two records of q with no overflow record at or between them
SameRun(fmt, q, i, j) ==
    i < j /\ \A k \in i..j : ~IsOverflow(fmt, q[k])

\* the conditions on the raw records of a file
WellFormed(fmt, q) ==
    IF fmt \in T2Formats
    THEN /\ \A i, j \in 1..Len(q) :
               SameRun(fmt, q, i, j) => RawTag(fmt, q[i]) <= RawTag(fmt, q[j])
         /\ \A i \in 1..Len(q) :
               IF IsOverflow(fmt, q[i])
               THEN fmt = "HHT2_HH2" => RawTag(fmt, q[i]) >= 1
               ELSE RawTag(fmt, q[i]) < T2WRAPAROUND(fmt)
    ELSE /\ \A i, j \in 1..Len(q) :
               SameRun(fmt, q, i, j) => RawNsync(q[i]) <= RawNsync(q[j])
         /\ \A i \in 1..Len(q) :
               ~IsOverflow(fmt, q[i]) =>
                   RawDtime(q[i]) * stream.dtime_res < stream.sync_period

\* within one sync period the records are in the order of their dtime
DtimeOrdered(fmt, q) ==
    \A i, j \in 1..Len(q) :
        (SameRun(fmt, q, i, j) /\ RawNsync(q[i]) = RawNsync(q[j]))
            => RawDtime(q[i]) <= RawDtime(q[j])

TofOrdered ==
    \A i, j \in 1..Len(emitted) :
        (i < j /\ emitted[i].channel >= 1 /\ emitted[j].channel >= 1)
            => emitted[i].tof <= emitted[j].tof

(* C34 as stated: if the raw records of a stream are well formed (between  *)
(* two consecutive overflow records the raw time tags are non-decreasing   *)
(* in file order; for T2 each tag is below the format's wraparound         *)
(* constant and every overflow record advances the accumulator by at least *)
(* one period; for T3 nsync is non-decreasing between overflows and        *)
(* dtime * dtime_resolution_ps < sync_period_ps), then the tof values      *)
(* emitted on channels >= 1 are non-decreasing over the whole stream, for  *)
(* each of PHT2, HHT2_HH1, HHT2_HH2 and HHT3_HH2.                          *)
C34_WellFormedAsStated ==
    WellFormed(stream.fmt, file) => TofOrdered

(* C34, amended: the same, where a well-formed T3 file also has the dtime  *)
(* of the records of one sync period (equal nsync, no overflow between     *)
(* them) non-decreasing in file order.                                     *)
C34_WellFormedOrdered ==
    (/\ WellFormed(stream.fmt, file)
     /\ stream.fmt = "HHT3_HH2" => DtimeOrdered(stream.fmt, file)) => TofOrdered

\* a well-formed PHT2 file whose time tag restarts after an overflow
C34_Witness ==
    /\ stream.fmt = "PHT2"
    /\ file = <<PHWord(1, 5), PHWord(15, 0), PHWord(2, 3)>>
    /\ WellFormed(stream.fmt, file)
    /\ ended
    /\ emitted = <<TTTRRecord(1, 5), TTTRRecord(-1, 0), TTTRRecord(2, 210698243)>>

SpecOrder == InitOrder /\ [][NextStream]_vars

(***************************************************************************)
(* SpecHeader: process_tag of read_ptu_header on a tag entry of type       *)
(* WideString.  The reader stands behind the entry: `header` holds the     *)
(* entry's value field, the byte count, and the bytes that follow it in    *)
(* the file.  A UTF-16 string is the sequence of its code points.          *)
(***************************************************************************)
MaxPayload == 4

\* NUL, 'A', and the first bytes of a high and of a low surrogate
PayloadBytes == {0, 65, 216, 220}

u16_from_be_bytes(b1, b2) == b1 * 256 + b2

\* std::char::decode_utf16(iter).collect::<Result<String, _>>().ok(): None
\* at the first unpaired surrogate
RECURSIVE decode_utf16(_)
decode_utf16(units) ==
    IF units = <<>> THEN Some(<<>>)
    ELSE LET u == Head(units)
             paired == /\ 55296 <= u /\ u <= 56319
                       /\ Len(units) >= 2
                       /\ 56320 <= units[2] /\ units[2] <= 57343
             c == IF paired
                  THEN 65536 + (u - 55296) * 1024 + (units[2] - 56320)
                  ELSE u
             r == decode_utf16(IF paired THEN Tail(Tail(units)) ELSE Tail(units))
         IN  IF 55296 <= u /\ u <= 57343 /\ ~paired THEN None
             ELSE IF r.some THEN Some(<<c>> \o r.v) ELSE None

\* read_string: the assert fails unless the slice holds `size` 16-bit units
read_string(slice, size) ==
    IF ~(2 * size <= Len(slice)) THEN [panic |-> TRUE, v |-> None]
    ELSE [panic |-> FALSE,
          v |-> decode_utf16([i \in 1..size |->
                                 u16_from_be_bytes(slice[2 * i - 1], slice[2 * i])])]

\* str::trim_matches(char::from(0)): NULs are removed at both ends
RECURSIVE trim_start_matches(_)
trim_start_matches(q) ==
    IF q # <<>> /\ Head(q) = 0 THEN trim_start_matches(Tail(q)) ELSE q

RECURSIVE trim_end_matches(_)
trim_end_matches(q) ==
    IF q # <<>> /\ q[Len(q)] = 0 THEN trim_end_matches(SubSeq(q, 1, Len(q) - 1)) ELSE q

trim_matches(q) == trim_end_matches(trim_start_matches(q))

TagOk(tag) == [res |-> "Ok", tag |-> tag]

\* process_tag, the arm PTUTagType::WideString: value is the u64 of the
\* value field, rest the bytes the reader has left
process_tag_WideString(value, rest) ==
    LET string_length == value
    IN  IF Len(rest) < string_length THEN Failed("IOError")
        ELSE LET string_buffer == SubSeq(rest, 1, string_length)
                 wide_string == read_string(string_buffer, string_length)
             IN  IF wide_string.panic \/ ~wide_string.v.some THEN Panicked
                 ELSE TagOk(PTUTag("WideString", trim_matches(wide_string.v.v)))

InitHeader ==
    /\ IdleRing
    /\ IdleStream
    /\ IdleDecode
    /\ IdleG2
    /\ IdleEng
    /\ \E value \in 0..MaxPayload, rest \in SeqsUpTo(PayloadBytes, MaxPayload) :
          header = [tag_type |-> "WideString", value |-> value, rest |-> rest]
    /\ outcome = NoOutcome

ProcessTag ==
    /\ outcome = NoOutcome
    /\ header # NoHeader
    /\ header.tag_type = "WideString"
    /\ outcome' = [call |-> "process_tag",
                   result |-> process_tag_WideString(header.value, header.rest)]
    /\ UNCHANGED <<ringVars, streamVars, decodeVars, g2Vars, engVars, header>>

\* the UTF-16 big-endian decoding of the bytes of a payload
Utf16BE(payload) ==
    IF Len(payload) % 2 # 0 THEN None
    ELSE decode_utf16([i \in 1..(Len(payload) \div 2) |->
                          payload[2 * i - 1] * 256 + payload[2 * i]])

(* C39: a header tag of type WideString (0x4002FFFF) with a payload of     *)
(* L > 0 bytes is parsed without aborting into a WideString tag holding    *)
(* the UTF-16 big-endian decoding of the payload with trailing NULs        *)
(* trimmed; a payload that is not valid UTF-16 produces an InvalidHeader   *)
(* error value rather than an abort.                                       *)
C39_WideStringParsed ==
    (/\ outcome.call = "process_tag"
     /\ header.value > 0
     /\ header.value <= Len(header.rest)) =>
        LET decoded == Utf16BE(SubSeq(header.rest, 1, header.value))
        IN  /\ outcome.result.res # "panic"
            /\ decoded.some =>
                  outcome.result =
                      TagOk(PTUTag("WideString", trim_end_matches(decoded.v)))
            /\ ~decoded.some => outcome.result = Failed("InvalidHeader")

NextHeader == ProcessTag

SpecHeader == InitHeader /\ [][NextHeader]_vars

(***************************************************************************)
(* SpecTermination: the loops of an engine run, each to its end: a record  *)
(* stream of either kind read until None (SpecStream), an iteration over a *)
(* ring buffer (SpecRing), and a call of g2 over the ranges of a file      *)
(* (SpecG2).  The library is single-threaded and synchronous: a `for` loop *)
(* calls next() again until it returns None and the code after the loop    *)
(* runs at once, so the run does not stop while a step is possible (weak   *)
(* fairness of the next-state action).                                     *)
(***************************************************************************)
MaxLiveFile == 3

\* a stream on a file of up to MaxLiveFile records: on the whole file, from
\* an offset, on an empty range, on a reversed range, and on a range that
\* ends past the end of the file
LiveArgs ==
    {[start_record |-> None, stop_record |-> None],
     [start_record |-> Some(1), stop_record |-> None],
     [start_record |-> Some(1), stop_record |-> Some(1)],
     [start_record |-> Some(2), stop_record |-> Some(1)],
     [start_record |-> None, stop_record |-> Some(MaxLiveFile + 1)]}

\* a photon record and an overflow record of each format
LiveRecords(fmt) ==
    CASE fmt = "PHT2"     -> {<<0, 1>>, <<61440, 0>>}
      [] fmt = "HHT2_HH1" -> {HHWord(0, 0, 1), HHWord(1, 63, 0)}
      [] fmt = "HHT2_HH2" -> {HHWord(0, 0, 1), HHWord(1, 63, 1)}
      [] fmt = "HHT3_HH2" -> {T3Word(0, 0, 100, 5), T3Word(1, 63, 0, 1)}

InitLiveStream ==
    /\ IdleRing
    /\ IdleDecode
    /\ IdleDispatch
    /\ IdleG2
    /\ IdleEng
    /\ \E fmt \in Formats :
          /\ file \in SeqsUpTo(LiveRecords(fmt), MaxLiveFile)
          /\ args \in LiveArgs
          /\ stream = IF fmt \in T2Formats
                      THEN T2Stream_new(fmt, Len(file), args.start_record, args.stop_record)
                      ELSE HHT3_HH2Stream_new(Len(file), args.start_record,
                                              args.stop_record, 12500, 4)
    /\ ret = None
    /\ emitted = <<>>
    /\ ended = FALSE

\* a call of g2 (channels 1 and 2) on a file of up to MaxLiveFile records:
\* the whole file, or a list of no, one or two ranges
LiveRangeLists ==
    {<<>>, <<Range(1, 0)>>, <<Range(0, 1), Range(1, MaxLiveFile)>>}

\* the files of photons on channels 1 and 2, the i-th at TofAt(i)
LiveG2Files ==
    UNION {{[i \in 1..n |-> PHWord(ch[i], TofAt(i))] : ch \in [1..n -> {1, 2}]} :
              n \in 0..MaxLiveFile}

InitLiveG2 ==
    /\ IdleRing
    /\ IdleStream
    /\ IdleDecode
    /\ IdleDispatch
    /\ IdleEng
    /\ \E f \in LiveG2Files :
          \/ g2 = G2Call("asymmetric", FALSE, <<WholeFile>>, f, 2)
          \/ \E l \in LiveRangeLists : g2 = G2Call("symmetric", TRUE, l, f, 2)

MaxLivePushes == 4

RECURSIVE PushAll(_, _, _)
PushAll(k, b, q) ==
    IF q = <<>> THEN b
    ELSE PushAll(k, IF k = "scalar" THEN CircularBuffer_push(b, Head(q))
                    ELSE CCircularBuffer_push(b, Head(q)[1], Head(q)[2]),
                 Tail(q))

\* a buffer of either flavour after up to MaxLivePushes pushes, which an
\* engine is about to iterate over
InitLiveRing ==
    /\ kind \in {"scalar", "coloured"}
    /\ pushed \in SeqsUpTo(IF kind = "scalar" THEN Tofs ELSE Clicks, MaxLivePushes)
    /\ \E c \in 1..MaxCap :
          cb = PushAll(kind, IF kind = "scalar" THEN CircularBuffer_new(c)
                             ELSE CCircularBuffer_new(c), pushed)
    /\ it = NoIter
    /\ yielded = <<>>
    /\ IdleStream
    /\ IdleDecode
    /\ IdleDispatch
    /\ IdleG2
    /\ IdleEng

InitTermination == InitLiveStream \/ InitLiveRing \/ InitLiveG2

RingStep == kind \in {"scalar", "coloured"} /\ (Iter \/ IterNext)

NextTermination == NextStream \/ RingStep \/ NextG2

SpecTermination ==
    /\ InitTermination
    /\ [][NextTermination]_vars
    /\ WF_vars(NextTermination)

\* click_count as a usize is at most num_records as a usize
UsizeLe(x, d) == d < 0 \/ x <= d

G2Over == g2.st \in {"done", "panic"}

\* a loop is running: a stream that has not returned None yet, a live
\* ring-buffer iterator, or a call of g2 that has not returned
Busy ==
    \/ stream.fmt \in Formats /\ ~ended
    \/ it.st = "active"
    \/ g2.st \in {"ranges", "loop"}

(* C40: every engine invocation on a finite file terminates: each record   *)
(* stream's next() returns None after finitely many calls (after at most   *)
(* num_records events for the T2 streams), click_count strictly increases  *)
(* with every emitted event, every ring-buffer iteration ends after at     *)
(* most len steps, and the engine loop then returns its result without     *)
(* any cancellation or retry path.                                         *)
C40_Terminates ==
    /\ Busy ~> ~Busy
    /\ [](stream.fmt \in T2Formats =>
            /\ UsizeLe(stream.click_count, stream.num_records)
            /\ Len(emitted) = stream.click_count)
    /\ [][Len(emitted') > Len(emitted) => stream'.click_count > stream.click_count]_vars
    /\ [](it.st \in {"active", "done"} =>
            /\ Len(yielded) <= Len(cb.buffer)
            /\ it.st = "done" => Len(yielded) = Len(cb.buffer))
    /\ [][g2.st \in {"ranges", "loop"} =>
             \/ g2'.st = "panic"
             \/ g2'.rng > g2.rng
             \/ g2'.rng = g2.rng /\ g2.st = "loop" /\ g2'.st = "loop"
                  /\ g2'.stream.click_count > g2.stream.click_count
             \/ g2'.rng = g2.rng /\ g2.st = "loop" /\ g2'.st = "ranges"
             \/ g2'.rng = g2.rng /\ g2.st = "ranges" /\ g2'.st = "done"]_vars
    /\ [][G2Over => g2' = g2]_vars

\* a call of symmetric g2 on a file of three records with the ranges
\* [0, 1) and [1, 3) has returned: both streams were read to their ends,
\* the second after two events, which the loop paired
C40_Witness ==
    /\ g2.st = "done" /\ g2.variant = "symmetric"
    /\ Len(g2.file) = 3
    /\ g2.ranges = <<Range(0, 1), Range(1, 3)>>
    /\ g2.rng = 2
    /\ g2.stream.click_count = 2
    /\ g2.incs # <<>>

Spec == SpecRing

====
